---------------------------- MODULE Spec2Model ----------------------------
(***************************************************************************)
(* A model of src/src/App.jsx: a multi-page document assembler with an     *)
(* annotation surface (fabric.js 5.3.1, pinned at App.jsx:58), a mosaic    *)
(* "bake" and a rotation-aware export (pdf-lib).                           *)
(*                                                                         *)
(* Numbers.  Positions, scales and opacities are held in thousandths       *)
(* (1000 = 1.0) so that fabric's serialisation, which keeps two fraction   *)
(* digits (fabric.Object.NUM_FRACTION_DIGITS = 2, applied by toObject to   *)
(* left, top, scaleX, scaleY, opacity, ...), is a real conversion.  Widths, *)
(* heights, stroke widths, font sizes and block sizes are whole numbers.   *)
(* currentIndex is 0-based as in the code (-1 = none); sequences are       *)
(* 1-based, so the active page is pages[currentIndex + 1].                 *)
(***************************************************************************)
EXTENDS Integers, Sequences, FiniteSets, TLC

VARIABLES
    pages,          \* useState pages (App.jsx:63): the Page Store
    currentIndex,   \* useState currentIndex (App.jsx:64)
    properties,     \* useState properties (App.jsx:68): last used style
    draggedIndex,   \* useState draggedIndex (App.jsx:74), -1 = null
    canvasObjs,     \* fabricCanvas.current objects, back to front
    canvasBg,       \* fabricCanvas.current.backgroundImage
    canvasDims,     \* fabricCanvas.current width/height
    activeSel,      \* oids of the active object / active selection
    isUpdating,     \* isUpdatingRef.current (App.jsx:82)
    loads,          \* page-load effects whose callbacks are still to come
    timers,         \* pending setTimeout(updateMosaicContent) timers
    bakes,          \* bakes waiting for img.onload (App.jsx:168-170)
    uploads,        \* image files being read by handleImageUpload
    steps,          \* user operations still to come (bounds the model)
    lastOp,         \* the handler that ran last, with what it saw
    ex,             \* the export in progress (exportPDF, App.jsx:650-808)
    bk,             \* bookkeeping of bakes per object (observations), and in
                    \* gone the removed objects that a timer or a bake holds
    isLoading       \* useState isLoading (App.jsx:65)

vars == <<pages, currentIndex, properties, draggedIndex, canvasObjs, canvasBg,
          canvasDims, activeSel, isUpdating, loads, timers, bakes, uploads,
          steps, lastOp, ex, bk, isLoading>>

---------------------------------------------------------------------------
(* Bounds of the model *)

MaxPages == 3
MaxObjs == 2
MaxSteps == 5
MaxEdits == 3
MaxStyleEdits == 2
MaxLiveEdits == 2
MaxRegion == 6
MaxBlock == 3
MaxExportPages == 1

\* edits of the objects of one surface in a row
MaxSceneEdits == 3

\* resize gestures on one mosaic in a row
MaxCaptures == 2

\* edits whose stored scene is compared with the live one
MaxStoreEdits == 2

\* page switches, rotations and deletions that start page loads
MaxLoads == 2

\* page switches in a row
MaxSwitches == 4

\* files in one selection of the file dialog
MaxFiles == 3
MaxRotations == 2
MaxExportEdits == 2

(* Program constants *)

BlankW == 1240
BlankH == 1754
MosaicW == 200
MosaicH == 120
MosaicStroke == 2
DefaultMosaicSize == 10
ViewportScale == 2

Rotations == {0, 90, 180, 270}

Min(a, b) == IF a <= b THEN a ELSE b
Max(a, b) == IF a >= b THEN a ELSE b

SeqToSet(s) == {s[i] : i \in 1..Len(s)}

RECURSIVE SelectSeq2(_, _)
\* the subsequence of s whose elements' oid is not in gone
SelectSeq2(s, gone) ==
    IF s = <<>> THEN <<>>
    ELSE IF Head(s).oid \in gone THEN SelectSeq2(Tail(s), gone)
         ELSE <<Head(s)>> \o SelectSeq2(Tail(s), gone)

---------------------------------------------------------------------------
(* Scene objects: the fabric objects the program creates *)

Colors == {"#ef4444", "#3b82f6"}

NoElement == [kind |-> "none"]

\* fabric keeps an object's corner coordinates in obj.aCoords, computed by
\* setCoords(); getBoundingRect(true) reads them.  The bounding box includes
\* the stroke: (width + strokeWidth) * scale, or width * scale + strokeWidth
\* for strokeUniform objects.  In thousandths of a pixel.
BoundW(o) == IF o.strokeUniform THEN o.width * o.scaleX + o.strokeWidth * 1000
             ELSE (o.width + o.strokeWidth) * o.scaleX
BoundH(o) == IF o.strokeUniform THEN o.height * o.scaleY + o.strokeWidth * 1000
             ELSE (o.height + o.strokeWidth) * o.scaleY

\* obj.setCoords()
SetCoords(o) == [o EXCEPT !.aW = BoundW(o), !.aH = BoundH(o)]

\* commonProps of addShape (App.jsx:521-524) plus fabric's defaults
CommonProps(oid, cx, cy, props) ==
    [oid |-> oid, type |-> "rect", left |-> cx, top |-> cy,
     width |-> 0, height |-> 0, scaleX |-> 1000, scaleY |-> 1000,
     fill |-> "rgb(0,0,0)", stroke |-> "null", strokeWidth |-> 1,
     opacity |-> props.opacity, fontSize |-> 0, isMosaic |-> FALSE,
     mosaicSize |-> 0, strokeUniform |-> FALSE, element |-> NoElement,
     aW |-> 0, aH |-> 0]

ShapeTypes == {"rect", "rect-outline", "arrow", "text", "mosaic"}

\* the object addShape(type) builds (App.jsx:526-567)
NewShape(type, oid, cx, cy, props) ==
    LET c == CommonProps(oid, cx, cy, props) IN
    CASE type = "rect" ->
           [c EXCEPT !.fill = props.color, !.width = 200, !.height = 200,
                     !.strokeUniform = TRUE]
      [] type = "rect-outline" ->
           [c EXCEPT !.fill = "transparent", !.stroke = props.color,
                     !.strokeWidth = props.size, !.width = 200, !.height = 200,
                     !.strokeUniform = TRUE]
      [] type = "arrow" ->
           [c EXCEPT !.type = "path", !.stroke = props.color,
                     !.strokeWidth = props.size, !.fill = "transparent",
                     !.width = 200, !.height = 200, !.strokeUniform = TRUE]
      [] type = "text" ->
           [c EXCEPT !.type = "i-text", !.fill = props.color,
                     !.fontSize = props.size * 4,
                     !.width = props.size * 16, !.height = props.size * 4]
      [] type = "mosaic" ->
           [c EXCEPT !.type = "image", !.width = MosaicW, !.height = MosaicH,
                     !.isMosaic = TRUE, !.mosaicSize = props.size,
                     !.stroke = "#3b82f6", !.strokeWidth = MosaicStroke,
                     !.fill = "transparent",
                     !.element = [kind |-> "blank", w |-> MosaicW, h |-> MosaicH]]

\* scale of an inserted image (App.jsx:479-483), in thousandths
InsertScale(cw, ch, iw, ih) ==
    Min(Min((cw * 400) \div iw, (ch * 400) \div ih), 1000)

\* the fabric.Image handleImageUpload adds (App.jsx:476-499)
NewImage(oid, cx, cy, cw, ch, iw, ih, index) ==
    [oid |-> oid, type |-> "image",
     left |-> cx + index * 20000, top |-> cy + index * 20000,
     width |-> iw, height |-> ih,
     scaleX |-> InsertScale(cw, ch, iw, ih), scaleY |-> InsertScale(cw, ch, iw, ih),
     fill |-> "rgb(0,0,0)", stroke |-> "null", strokeWidth |-> 0,
     opacity |-> 1000, fontSize |-> 0, isMosaic |-> FALSE, mosaicSize |-> 0,
     strokeUniform |-> FALSE,
     element |-> [kind |-> "file", w |-> iw, h |-> ih], aW |-> 0, aH |-> 0]

---------------------------------------------------------------------------
(* Serialisation: canvas.toJSON(props) and canvas.loadFromJSON *)

\* the extra properties saveCurrentState asks toJSON to keep (App.jsx:96-98)
SavedProps == {"id", "isMosaic", "mosaicSize", "selectable", "evented",
               "strokeUniform", "lockUniScaling"}

\* fabric.util.toFixed(v, 2) on a value held in thousandths
ToFixed2(v) == ((v + 5) \div 10) * 10

\* fabric.Object.toObject(props): the default fields, numbers at two fraction
\* digits, plus the listed extra properties; fabric.Image adds src, the data
\* URL of its element (getSrc() is element.toDataURL() for a canvas element)
ToObject(o, props) ==
    [type |-> o.type,
     left |-> ToFixed2(o.left), top |-> ToFixed2(o.top),
     width |-> o.width, height |-> o.height,
     fill |-> o.fill, stroke |-> o.stroke, strokeWidth |-> o.strokeWidth,
     scaleX |-> ToFixed2(o.scaleX), scaleY |-> ToFixed2(o.scaleY),
     opacity |-> ToFixed2(o.opacity),
     fontSize |-> o.fontSize,
     src |-> IF o.type = "image" THEN o.element ELSE NoElement,
     isMosaic |-> IF "isMosaic" \in props THEN o.isMosaic ELSE FALSE,
     mosaicSize |-> IF "mosaicSize" \in props THEN o.mosaicSize ELSE 0,
     strokeUniform |-> IF "strokeUniform" \in props THEN o.strokeUniform ELSE FALSE]

NoBg == [thumb |-> 0, angle |-> 0]

\* canvas.toJSON(props): the objects back to front and the background image
ToJSON(objs, bg, props) ==
    [isNull |-> FALSE,
     objects |-> [i \in 1..Len(objs) |-> ToObject(objs[i], props)],
     backgroundImage |-> bg]

\* fabricData: null (App.jsx:418, 452)
NullData == [isNull |-> TRUE, objects |-> <<>>, backgroundImage |-> NoBg]

\* klass.fromObject(d) followed by canvas.insertAt, which calls setCoords()
FromObject(d, oid) ==
    SetCoords(
    [oid |-> oid, type |-> d.type, left |-> d.left, top |-> d.top,
     width |-> d.width, height |-> d.height,
     scaleX |-> d.scaleX, scaleY |-> d.scaleY,
     fill |-> d.fill, stroke |-> d.stroke, strokeWidth |-> d.strokeWidth,
     opacity |-> d.opacity, fontSize |-> d.fontSize,
     isMosaic |-> d.isMosaic, mosaicSize |-> d.mosaicSize,
     strokeUniform |-> d.strokeUniform,
     element |-> d.src, aW |-> 0, aH |-> 0])

\* the objects loadFromJSON puts on the canvas, given the oids to use
LoadObjects(doc, oids) ==
    [i \in 1..Len(doc.objects) |-> FromObject(doc.objects[i], oids[i])]

\* the fields of a live object that the scene document is meant to carry
Persisted(o) ==
    [type |-> o.type, left |-> o.left, top |-> o.top,
     width |-> o.width, height |-> o.height,
     scaleX |-> o.scaleX, scaleY |-> o.scaleY,
     opacity |-> o.opacity, fill |-> o.fill, stroke |-> o.stroke,
     strokeWidth |-> o.strokeWidth, fontSize |-> o.fontSize,
     isMosaic |-> o.isMosaic, mosaicSize |-> o.mosaicSize]

---------------------------------------------------------------------------
(* The mosaic bake: updateMosaicContent (App.jsx:133-205) *)

\* what is drawn of an object
Visual(o) ==
    [type |-> o.type, left |-> o.left, top |-> o.top,
     width |-> o.width, height |-> o.height,
     scaleX |-> o.scaleX, scaleY |-> o.scaleY, opacity |-> o.opacity,
     fill |-> o.fill, stroke |-> o.stroke, strokeWidth |-> o.strokeWidth,
     fontSize |-> o.fontSize, element |-> o.element]

\* obj.getBoundingRect(true): the cached corner coordinates around the centre
BoundingRect(o) ==
    [left |-> o.left - (o.aW \div 2), top |-> o.top - (o.aH \div 2),
     width |-> o.aW, height |-> o.aH]

\* whether object o is drawn inside rectangle r
Overlaps(o, r) ==
    /\ 2 * o.left - BoundW(o) < 2 * (r.left + r.width)
    /\ 2 * o.left + BoundW(o) > 2 * r.left
    /\ 2 * o.top - BoundH(o) < 2 * (r.top + r.height)
    /\ 2 * o.top + BoundH(o) > 2 * r.top

RECURSIVE Drawn(_, _, _)
\* the objects of objs, other than oid, drawn inside r, back to front
Drawn(objs, oid, r) ==
    IF objs = <<>> THEN <<>>
    ELSE IF Head(objs).oid # oid /\ Overlaps(Head(objs), r)
         THEN <<Visual(Head(objs))>> \o Drawn(Tail(objs), oid, r)
         ELSE Drawn(Tail(objs), oid, r)

\* canvas.toDataURL({left, top, width, height}) with obj hidden
\* (App.jsx:138-166): the background and every other object inside rect
Capture(objs, bg, oid, r) ==
    [rect |-> r, bg |-> bg, layers |-> Drawn(objs, oid, r)]

\* obj.mosaicSize || 10 (App.jsx:172)
EffMosaicSize(o) == IF o.mosaicSize = 0 THEN DefaultMosaicSize ELSE o.mosaicSize

\* rounding to the nearest cell count instead of down
SmallDimRound(len, b) == Max(1, (len + 500 * b) \div (1000 * b))

\* Math.max(1, Math.floor(w / mosaicSize)) (App.jsx:179-180); len in thousandths
SmallDim(len, b) == Max(1, len \div (1000 * b))

\* finalCanvas (App.jsx:187-192): a canvas element's width is an integer
BakedElement(o, cap) ==
    [kind |-> "baked",
     w |-> cap.rect.width \div 1000, h |-> cap.rect.height \div 1000,
     sw |-> SmallDim(cap.rect.width, EffMosaicSize(o)),
     sh |-> SmallDim(cap.rect.height, EffMosaicSize(o)),
     b |-> EffMosaicSize(o), cap |-> cap]

\* obj.setElement(el) (App.jsx:196): fabric.Image.setElement takes the
\* element's size as the object's width and height
SetElement(o, el) == [o EXCEPT !.element = el, !.width = el.w, !.height = el.h]

\* the flat-colour blocks of a baked element: the cells of the small canvas
\* that nearest-neighbour upscaling (App.jsx:191-192) shows
Blocks(el) ==
    {<<((2 * x + 1) * el.sw) \div (2 * el.w), ((2 * y + 1) * el.sh) \div (2 * el.h)>> :
        x \in 0..(el.w - 1), y \in 0..(el.h - 1)}

CeilDiv(a, b) == (a + b - 1) \div b

---------------------------------------------------------------------------
(* Page Store and the page-load effect *)

BlankPageFixedId(id) ==
    [id |-> 1, pdfBytes |-> 0, pageNum |-> 0, fabricData |-> NullData,
     width |-> BlankW, height |-> BlankH, rotation |-> 0,
     srcW |-> 0, srcH |-> 0, srcRot |-> 0]

\* the page addBlankPage builds (App.jsx:447-454)
NewBlankPage(id) ==
    [id |-> id, pdfBytes |-> 0, pageNum |-> 0, fabricData |-> NullData,
     width |-> BlankW, height |-> BlankH, rotation |-> 0,
     srcW |-> 0, srcH |-> 0, srcRot |-> 0]

HasPage(pgs, idx) == idx >= 0 /\ idx < Len(pgs)

\* the editing surface's size for a page (App.jsx:338-340)
LoadDims(page) ==
    IF page.rotation % 180 # 0 THEN <<page.height, page.width>>
    ELSE <<page.width, page.height>>

\* the size fitZoom fits (App.jsx:323-325)
FitDims(page) ==
    IF page.rotation % 180 # 0 THEN <<page.height, page.width>>
    ELSE <<page.width, page.height>>

SceneNeverEqual(a, b) == FALSE

\* JSON.stringify(a) === JSON.stringify(b) (App.jsx:102): both are results of
\* toJSON, or null, so their keys come in the same order and the strings are
\* equal exactly when the values are
SceneEqual(a, b) == a = b

\* whether the updater of saveCurrentState builds a new pages array
\* (App.jsx:101-106) rather than return prev
UpdaterWrites(prev, cIdx, cId, json) ==
    /\ HasPage(prev, cIdx) /\ prev[cIdx + 1].id = cId
    /\ ~SceneEqual(prev[cIdx + 1].fabricData, json)

\* the functional update of saveCurrentState (App.jsx:100-107), for a closure
\* that holds active index cIdx and page id cId
UpdateScene(prev, cIdx, cId, json) ==
    IF UpdaterWrites(prev, cIdx, cId, json)
    THEN [prev EXCEPT ![cIdx + 1].fabricData = json]
    ELSE prev

\* pages[currentIndex]?.id (App.jsx:92); 0 stands for undefined
ClosureId(pgs, idx) == IF HasPage(pgs, idx) THEN pgs[idx + 1].id ELSE 0

\* saveCurrentState (App.jsx:90-108) called from a closure that holds active
\* index cIdx and page id cId, with the store at prev; json is what toJSON
\* returns at the call
SaveCurrentState(prev, cIdx, cId, updating, json) ==
    IF cIdx = -1 \/ updating THEN prev
    ELSE IF cId = 0 THEN prev
    ELSE UpdateScene(prev, cIdx, cId, json)

\* whether that call of saveCurrentState writes the Page Store
SaveWrites(prev, cIdx, cId, updating, json) ==
    /\ cIdx # -1 /\ ~updating /\ cId # 0
    /\ UpdaterWrites(prev, cIdx, cId, json)

\* the JSON of the live surface
LiveJSON == ToJSON(canvasObjs, canvasBg, SavedProps)

\* saveCurrentState from a handler of the current render
SaveNow(prev) ==
    SaveCurrentState(prev, currentIndex, ClosureId(pages, currentIndex),
                     isUpdating, LiveJSON)

SaveNothing(prev, objs, bg, updating) == prev

\* saveCurrentState from a handler of the current render, the surface
\* holding objs
SaveObjs(prev, objs, bg, updating) ==
    SaveCurrentState(prev, currentIndex, ClosureId(pages, currentIndex),
                     updating, ToJSON(objs, bg, SavedProps))

\* the oids of the objects that the closure of a pending timer
\* (App.jsx:280, 354) or of a pending img.onload (App.jsx:170) refers to
Held(ts, bs) == {x.oid : x \in ts} \cup {bs[i].oid : i \in 1..Len(bs)}

\* The objects that are off the surface and still referred to: those of
\* gone, and those of before that are not in after.  A removed object stays
\* as it was when it was removed.
Detach(gone, before, after, ts, bs) ==
    LET left == {i \in 1..Len(before) :
                    \A j \in 1..Len(after) : after[j].oid # before[i].oid}
        oids == (DOMAIN gone \cup {before[i].oid : i \in left}) \cap Held(ts, bs)
    IN  [x \in oids |->
            IF x \in DOMAIN gone THEN gone[x]
            ELSE before[CHOOSE i \in left : before[i].oid = x]]

\* the dependencies of the page-load effect (App.jsx:387)
Deps(pgs, idx) ==
    IF HasPage(pgs, idx) THEN <<idx, pgs[idx + 1].id, pgs[idx + 1].rotation>>
    ELSE <<idx, 0, 0 - 1>>

\* The synchronous part of the page-load effect (App.jsx:333-343, 365-366),
\* run after a render that changed its dependencies.  canvas.clear() removes
\* every object; the object:removed handlers call saveCurrentState, which
\* returns at once because isUpdatingRef was set on the line before.
PageLoadEffect ==
    IF Deps(pages', currentIndex') # Deps(pages, currentIndex)
       /\ HasPage(pages', currentIndex')
    THEN /\ isUpdating' = TRUE
         /\ canvasDims' = LoadDims(pages'[currentIndex' + 1])
         /\ canvasObjs' = <<>>
         /\ canvasBg' = NoBg
         /\ activeSel' = {}
         /\ loads' = Append(loads, [page |-> pages'[currentIndex' + 1],
                                    stage |-> "fromURL"])
         /\ bk' = [need |-> {}, last |-> <<>>, idem |-> "na",
                   gone |-> Detach(bk.gone, canvasObjs, <<>>, timers, bakes)]
    ELSE /\ UNCHANGED <<isUpdating, canvasDims, canvasObjs, canvasBg, activeSel, loads>>
         /\ bk' = [bk EXCEPT !.idem = "na"]

\* [...prev] with the item at from spliced out and spliced in at to
\* (App.jsx:633-636, 863-865); from and to are 0-based
Splice(s, from, to) ==
    LET item == s[from + 1]
        rest == [i \in 1..(Len(s) - 1) |-> IF i <= from THEN s[i] ELSE s[i + 1]]
    IN  [i \in 1..Len(s) |->
            IF i <= to THEN rest[i] ELSE IF i = to + 1 THEN item ELSE rest[i - 1]]

Ids(pgs) == [i \in 1..Len(pgs) |-> pgs[i].id]

\* the user can start another operation: the budget of the model is not
\* used up, and no drag gesture is under way (a drag ends with its drop)
CanStep == steps > 0 /\ draggedIndex = -1

Idle == [kind |-> "none"]

\* addBlankPage (App.jsx:438-457)
AddBlankPage ==
    /\ CanStep /\ Len(pages) < MaxPages
    /\ pages' = Append(pages, NewBlankPage(steps))
    /\ currentIndex' = IF currentIndex = -1 THEN 0 ELSE currentIndex
    /\ PageLoadEffect
    /\ steps' = steps - 1
    /\ lastOp' = [kind |-> "addBlankPage"]
    /\ UNCHANGED <<properties, draggedIndex, timers, bakes, uploads, ex,
                   isLoading>>

\* onClick of a page entry (App.jsx:870)
SelectPage(idx) ==
    /\ CanStep /\ idx # currentIndex
    /\ currentIndex' = idx
    /\ pages' = pages
    /\ PageLoadEffect
    /\ steps' = steps - 1
    /\ lastOp' = [kind |-> "selectPage"]
    /\ UNCHANGED <<properties, draggedIndex, timers, bakes, uploads, ex,
                   isLoading>>

\* movePage(fromIndex, direction) (App.jsx:627-644); the step buttons are
\* disabled at the ends of the list (App.jsx:884-885)
MovePage(fromIndex, direction) ==
    LET toIndex == fromIndex + direction
        saved == SaveNow(pages)
    IN
    /\ CanStep
    /\ toIndex >= 0 /\ toIndex < Len(pages)
    /\ pages' = Splice(saved, fromIndex, toIndex)
    /\ currentIndex' = IF currentIndex = fromIndex THEN toIndex
                       ELSE IF currentIndex = toIndex THEN fromIndex
                       ELSE currentIndex
    /\ PageLoadEffect
    /\ steps' = steps - 1
    /\ lastOp' = [kind |-> "movePage", from |-> fromIndex, to |-> toIndex,
                  ids |-> Ids(pages), cur |-> currentIndex]
    /\ UNCHANGED <<properties, draggedIndex, timers, bakes, uploads, ex,
                   isLoading>>

\* onDragStart (App.jsx:854)
DragStart(idx) ==
    /\ CanStep
    /\ draggedIndex' = idx
    /\ UNCHANGED <<pages, currentIndex, properties, canvasObjs, canvasBg,
                   canvasDims, activeSel, isUpdating, loads, timers, bakes,
                   uploads, steps, lastOp, ex, bk,
                   isLoading>>

\* onDrop on entry idx (App.jsx:860-869)
Drop(idx) ==
    /\ steps > 0 /\ draggedIndex # -1
    /\ pages' = Splice(pages, draggedIndex, idx)
    /\ draggedIndex' = -1
    /\ currentIndex' = currentIndex
    /\ PageLoadEffect
    /\ steps' = steps - 1
    /\ lastOp' = [kind |-> "drop", from |-> draggedIndex, to |-> idx,
                  ids |-> Ids(pages), cur |-> currentIndex]
    /\ UNCHANGED <<properties, timers, bakes, uploads, ex, isLoading>>

\* the rotate button (App.jsx:899)
RotatePage(idx) ==
    /\ CanStep
    /\ pages' = [pages EXCEPT ![idx + 1].rotation = (@ + 90) % 360]
    /\ currentIndex' = currentIndex
    /\ PageLoadEffect
    /\ steps' = steps - 1
    /\ lastOp' = [kind |-> "rotate", idx |-> idx]
    /\ UNCHANGED <<properties, draggedIndex, timers, bakes, uploads, ex,
                   isLoading>>

\* the delete button (App.jsx:900)
DeletePage(idx) ==
    /\ CanStep
    /\ pages' = [i \in 1..(Len(pages) - 1) |->
                    IF i <= idx THEN pages[i] ELSE pages[i + 1]]
    /\ currentIndex' = currentIndex
    /\ PageLoadEffect
    /\ steps' = steps - 1
    /\ lastOp' = [kind |-> "deletePage", idx |-> idx, cur |-> currentIndex,
                  ids |-> Ids(pages)]
    /\ UNCHANGED <<properties, draggedIndex, timers, bakes, uploads, ex,
                   isLoading>>

---------------------------------------------------------------------------
(* The live surface: objects, selection, events *)

OidsOf(objs) == {objs[i].oid : i \in 1..Len(objs)}

UsedOids == OidsOf(canvasObjs) \cup {t.oid : t \in timers}
            \cup {bakes[i].oid : i \in 1..Len(bakes)}

RECURSIVE FreshFrom(_, _, _)
\* n object identities not in used, from k upwards
FreshFrom(used, k, n) ==
    IF n = 0 THEN <<>>
    ELSE IF k \in used THEN FreshFrom(used, k + 1, n)
         ELSE <<k>> \o FreshFrom(used, k + 1, n - 1)

FreshOids(n) == FreshFrom(UsedOids, 1, n)

IndexOf(objs, oid) == CHOOSE i \in 1..Len(objs) : objs[i].oid = oid

OnCanvas(oid) == oid \in OidsOf(canvasObjs)

\* what a bake compares: everything drawn on the surface
SceneKey(objs, bg) == <<[i \in 1..Len(objs) |-> Visual(objs[i])], bg>>

\* syncProperties (App.jsx:110-126)
SyncProperties(prev, obj) ==
    [color |-> IF obj.fill = "transparent" THEN obj.stroke ELSE obj.fill,
     opacity |-> IF obj.opacity = 0 THEN 1000 ELSE obj.opacity,
     size |-> IF obj.isMosaic THEN EffMosaicSize(obj)
              ELSE IF obj.type = "i-text"
                   THEN (IF obj.fontSize = 0 THEN 10 ELSE (2 * obj.fontSize + 4) \div 8)
              ELSE IF obj.strokeWidth # 0 THEN obj.strokeWidth
              ELSE 5]

\* the synchronous half of updateMosaicContent(obj) (App.jsx:133-169) on the
\* live surface: canvas.renderAll() draws the controls of a singly selected
\* object, which recomputes its coordinates; a group member keeps its cached
\* ones.  Returns the object as left behind by the call.
Refreshed(o, sel) == IF sel = {o.oid} THEN SetCoords(o) ELSE o

\* the bake request updateMosaicContent(obj) leaves waiting for img.onload
\* (<<>> when it returns early, App.jsx:134, 148-151); ans and same are
\* observations: the request comes after a re-bake trigger, and it follows a
\* finished bake of the same object with nothing on the surface changed since
BakeRequest(objs, bg, sel, oid, ans, same) ==
    LET o == Refreshed(objs[IndexOf(objs, oid)], sel)
        r == BoundingRect(o)
    IN  IF ~o.isMosaic \/ r.width <= 0 \/ r.height <= 0 THEN <<>>
        ELSE <<[oid |-> oid, cap |-> Capture(objs, bg, oid, r),
                ans |-> ans, same |-> same]>>

\* whether a bake requested now repeats the last finished bake of oid
Repeats(objs, bg, oid) ==
    /\ oid \in DOMAIN bk.last
    /\ bk.last[oid] = SceneKey(objs, bg)
    /\ \A i \in 1..Len(bakes) : bakes[i].oid # oid

\* objects with the coordinates of the singly selected one recomputed
RefreshAll(objs, sel) == [i \in 1..Len(objs) |-> Refreshed(objs[i], sel)]

\* the bookkeeping restricted to the objects that still matter
Prune(b, objs) ==
    [b EXCEPT !.need = @ \cap OidsOf(objs),
              !.last = [o \in (DOMAIN @) \cap OidsOf(objs) |-> @[o]],
              !.gone = Detach(@, canvasObjs, objs, timers, bakes)]

\* the removed objects still referred to by a timer of ts or a bake of bs
StillHeld(gone, ts, bs) == [x \in DOMAIN gone \cap Held(ts, bs) |-> gone[x]]

\* updateMosaicContent(obj) (App.jsx:133-169) for an object o that is no
\* longer on the surface: hiding it changes nothing, getBoundingRect gives
\* the place it was at, and toDataURL captures the surface as it is now
BakeRequestOff(objs, bg, o) ==
    LET r == BoundingRect(o)
    IN  IF ~o.isMosaic \/ r.width <= 0 \/ r.height <= 0 THEN <<>>
        ELSE <<[oid |-> o.oid, cap |-> Capture(objs, bg, o.oid, r),
                ans |-> FALSE, same |-> FALSE]>>

\* handleObjectAdded's timer (App.jsx:278-281)
AddTimers(o) == IF o.isMosaic THEN {[oid |-> o.oid, kind |-> "added"]} ELSE {}

\* addShape(type) (App.jsx:515-572): canvas.add fires object:added
\* (handleObjectAdded saves), setActiveObject fires selection:created
\* (syncProperties), then addShape saves again
AddShape(type) ==
    LET oid == FreshOids(1)[1]
        obj == SetCoords(NewShape(type, oid, canvasDims[1] * 500,
                                  canvasDims[2] * 500, properties))
        objs == Append(canvasObjs, obj)
    IN
    /\ CanStep /\ currentIndex # -1 /\ Len(canvasObjs) < MaxObjs
    /\ canvasObjs' = objs
    /\ activeSel' = {oid}
    /\ properties' = SyncProperties(properties, obj)
    /\ timers' = timers \cup AddTimers(obj)
    /\ pages' = SaveObjs(SaveObjs(pages, objs, canvasBg, isUpdating),
                          objs, canvasBg, isUpdating)
    /\ bk' = IF obj.isMosaic
             THEN [bk EXCEPT !.need = @ \cup {oid}, !.idem = "na"]
             ELSE [bk EXCEPT !.idem = "na"]
    /\ steps' = steps - 1
    /\ lastOp' = [kind |-> "addShape", oid |-> oid]
    /\ UNCHANGED <<currentIndex, draggedIndex, canvasBg, canvasDims,
                   isUpdating, loads, bakes, uploads, ex, isLoading>>

\* a click or a drag selection on the surface: selection:created /
\* selection:updated call syncProperties with the first selected object
\* (App.jsx:261-264); rendering the controls recomputes the coordinates of a
\* singly selected object
SelectObjects(sel, first) ==
    /\ CanStep
    /\ sel # {} /\ sel # activeSel /\ sel \subseteq OidsOf(canvasObjs)
    /\ first \in sel
    /\ activeSel' = sel
    /\ properties' = SyncProperties(properties, canvasObjs[IndexOf(canvasObjs, first)])
    /\ canvasObjs' = RefreshAll(canvasObjs, sel)
    /\ steps' = steps - 1
    /\ lastOp' = [kind |-> "select"]
    /\ bk' = [bk EXCEPT !.idem = "na"]
    /\ UNCHANGED <<pages, currentIndex, draggedIndex, canvasBg, canvasDims,
                   isUpdating, loads, timers, bakes, uploads, ex, isLoading>>

\* in-flight bakes of oid no longer answer a trigger that comes after them
Superseded(bs, oid) ==
    [i \in 1..Len(bs) |-> IF bs[i].oid = oid THEN [bs[i] EXCEPT !.ans = FALSE]
                          ELSE bs[i]]

\* positions and scales a drag can leave an object at
DragLefts == {300004}
DragScales == {1500}

\* The end of a move or resize gesture on object oid: the object becomes the
\* selection if it was not part of it, fabric recomputes its coordinates and
\* fires object:modified; handleModified (App.jsx:267-274) re-bakes a mosaic
\* and saves.
ModifyObject(oid, field, v) ==
    LET i == IndexOf(canvasObjs, oid)
        sel == IF oid \in activeSel THEN activeSel ELSE {oid}
        o == SetCoords([canvasObjs[i] EXCEPT ![field] = v])
        objs == [canvasObjs EXCEPT ![i] = o]
        req == IF o.isMosaic
               THEN BakeRequest(objs, canvasBg, {oid}, oid, TRUE, FALSE)
               ELSE <<>>
    IN
    /\ CanStep
    /\ OnCanvas(oid)
    /\ sel = {oid}
    /\ canvasObjs[i][field] # v
    /\ activeSel' = sel
    /\ properties' = IF sel = activeSel THEN properties
                     ELSE SyncProperties(properties, canvasObjs[i])
    /\ canvasObjs' = objs
    /\ bakes' = IF o.isMosaic THEN Superseded(bakes, oid) \o req ELSE bakes
    /\ pages' = SaveObjs(pages, objs, canvasBg, isUpdating)
    /\ bk' = IF o.isMosaic
             THEN [bk EXCEPT !.need = @ \cup {oid}, !.idem = "na"]
             ELSE [bk EXCEPT !.idem = "na"]
    /\ steps' = steps - 1
    /\ lastOp' = [kind |-> "modified", oid |-> oid]
    /\ UNCHANGED <<currentIndex, draggedIndex, canvasBg, canvasDims,
                   isUpdating, loads, timers, uploads, ex, isLoading>>

\* what updateSelectedObject does to one object (App.jsx:585-601)
ApplyStyle(o, key, value) ==
    CASE key = "color" ->
           [o EXCEPT
              !.fill = IF o.type = "i-text" THEN value
                       ELSE IF o.fill # "transparent" /\ ~o.isMosaic /\ o.type # "image"
                            THEN value ELSE @,
              !.stroke = IF o.stroke # "null" /\ o.stroke # "transparent"
                         THEN value ELSE @]
      [] key = "opacity" -> [o EXCEPT !.opacity = value]
      [] key = "size" ->
           IF o.isMosaic THEN [o EXCEPT !.mosaicSize = value]
           ELSE IF o.type = "i-text"
                THEN [o EXCEPT !.fontSize = value * 4,
                               !.width = value * 16, !.height = value * 4]
           ELSE IF o.stroke # "null" THEN [o EXCEPT !.strokeWidth = value]
           ELSE o

RECURSIVE StyleRun(_, _, _, _, _, _, _)
\* objects.forEach of updateSelectedObject (App.jsx:584-602) from position i
\* on: the surface after each selected object's update, and the bake
\* requests made on the way (a size edit re-bakes a mosaic at once)
StyleRun(objs, bg, sel, i, key, value, acc) ==
    IF i > Len(objs) THEN acc
    ELSE IF objs[i].oid \notin sel
         THEN StyleRun(objs, bg, sel, i + 1, key, value, acc)
    ELSE LET o == ApplyStyle(objs[i], key, value)
             objs1 == [objs EXCEPT ![i] = o]
             req == IF key = "size" /\ o.isMosaic
                    THEN BakeRequest(objs1, bg, sel, o.oid, TRUE, FALSE)
                    ELSE <<>>
             objs2 == IF key = "size" /\ o.isMosaic
                      THEN [objs1 EXCEPT ![i] = Refreshed(o, sel)] ELSE objs1
         IN  StyleRun(objs2, bg, sel, i + 1, key, value,
                      [states |-> Append(acc.states, objs2),
                       reqs |-> acc.reqs \o req,
                       trig |-> IF key = "size" /\ o.isMosaic
                                THEN acc.trig \cup {o.oid} ELSE acc.trig])

\* a save after every object of the loop
StyleSavesEach(states) == states

\* the surfaces updateSelectedObject saves: one call to saveCurrentState,
\* after the loop (App.jsx:604-605)
StyleSaves(states) == <<states[Len(states)]>>

RECURSIVE SaveEach(_, _, _, _)
\* saveCurrentState once per surface of saves: the store afterwards and the
\* number of calls that wrote to it
SaveEach(prev, saves, bg, updating) ==
    IF saves = <<>> THEN [pages |-> prev, writes |-> 0]
    ELSE LET nxt == SaveObjs(prev, Head(saves), bg, updating)
             rest == SaveEach(nxt, Tail(saves), bg, updating)
         IN  [pages |-> rest.pages,
              writes |-> rest.writes + (IF nxt # prev THEN 1 ELSE 0)]

\* Superseded for a set of objects
SupersededAll(bs, oids) ==
    [i \in 1..Len(bs) |-> IF bs[i].oid \in oids THEN [bs[i] EXCEPT !.ans = FALSE]
                          ELSE bs[i]]

StyleValues == [color |-> {"#3b82f6"}, opacity |-> {500}, size |-> {7}]

\* updateSelectedObject(key, value) (App.jsx:574-606)
UpdateSelectedObject(key, value) ==
    LET run == StyleRun(canvasObjs, canvasBg, activeSel, 1, key, value,
                        [states |-> <<>>, reqs |-> <<>>, trig |-> {}])
        objs == run.states[Len(run.states)]
        out == SaveEach(pages, StyleSaves(run.states), canvasBg, isUpdating)
    IN
    /\ CanStep
    /\ properties' = [properties EXCEPT ![key] = value]
    /\ IF activeSel = {}
       THEN /\ UNCHANGED <<canvasObjs, bakes, pages, bk>>
            /\ lastOp' = [kind |-> "styleNone"]
       ELSE /\ canvasObjs' = objs
            /\ bakes' = SupersededAll(bakes, run.trig) \o run.reqs
            /\ pages' = out.pages
            /\ bk' = [bk EXCEPT !.need = @ \cup run.trig, !.idem = "na"]
            /\ lastOp' = [kind |-> "style", key |-> key, value |-> value,
                          sel |-> activeSel, writes |-> out.writes,
                          changed |-> /\ HasPage(pages, currentIndex)
                                      /\ pages[currentIndex + 1].fabricData
                                           # ToJSON(objs, canvasBg, SavedProps),
                          ready |-> ~isUpdating /\ HasPage(pages, currentIndex)]
    /\ steps' = steps - 1
    /\ UNCHANGED <<currentIndex, draggedIndex, canvasBg, canvasDims, activeSel,
                   isUpdating, loads, timers, uploads, ex, isLoading>>

\* the objects of objs that are not in sel, in stack order
Remaining(objs, sel) == SelectSeq(objs, LAMBDA o : o.oid \notin sel)

\* The delete button (App.jsx:951-964): canvas.remove for the active object,
\* or for each member of the active selection; each removal fires
\* object:removed, whose handler saves, and the removal of the active object
\* discards the selection; then the button's own saveCurrentState.  Timers
\* and image loads of the bakes of a removed object stay.  With nothing
\* selected remove(undefined) removes nothing and the save is all there is.
DeleteSelected ==
    LET objs == Remaining(canvasObjs, activeSel) IN
    /\ CanStep /\ currentIndex # -1
    /\ canvasObjs' = objs
    /\ activeSel' = {}
    /\ pages' = SaveObjs(pages, objs, canvasBg, isUpdating)
    /\ bk' = Prune([bk EXCEPT !.idem = "na"], objs)
    /\ steps' = steps - 1
    /\ lastOp' = [kind |-> "deleteObject", oids |-> activeSel]
    /\ UNCHANGED <<currentIndex, properties, draggedIndex, canvasBg, canvasDims,
                   isUpdating, loads, timers, bakes, uploads, ex, isLoading>>

LayerMoves == {"front", "back", "forward", "backward"}

\* s with the elements at positions i and j exchanged
Swapped(s, i, j) ==
    [k \in 1..Len(s) |-> IF k = i THEN s[j] ELSE IF k = j THEN s[i] ELSE s[k]]

\* bringToFront, sendToBack, bringForward, sendBackwards (App.jsx:615-620)
\* for the object at position i of the stack
Restacked(objs, i, direction) ==
    LET rest == [k \in 1..(Len(objs) - 1) |-> IF k < i THEN objs[k] ELSE objs[k + 1]]
    IN  CASE direction = "front" -> Append(rest, objs[i])
          [] direction = "back" -> <<objs[i]>> \o rest
          [] direction = "forward" ->
               IF i < Len(objs) THEN Swapped(objs, i, i + 1) ELSE objs
          [] direction = "backward" ->
               IF i > 1 THEN Swapped(objs, i, i - 1) ELSE objs

\* moveLayer(direction) (App.jsx:609-624) with one object selected: the
\* object changes its place in the stack and the scene is saved; no bake is
\* asked for
MoveLayer(direction) ==
    LET oid == CHOOSE x \in activeSel : TRUE
        objs == Restacked(canvasObjs, IndexOf(canvasObjs, oid), direction)
    IN
    /\ CanStep
    /\ Cardinality(activeSel) = 1
    /\ canvasObjs' = objs
    /\ pages' = SaveObjs(pages, objs, canvasBg, isUpdating)
    /\ bk' = [bk EXCEPT !.idem = "na"]
    /\ steps' = steps - 1
    /\ lastOp' = [kind |-> "moveLayer", oid |-> oid, direction |-> direction]
    /\ UNCHANGED <<currentIndex, properties, draggedIndex, canvasBg, canvasDims,
                   activeSel, isUpdating, loads, timers, bakes, uploads, ex,
                   isLoading>>

\* sizes of the image files a user inserts
ImageSizes == {<<1000, 500>>}

\* handleImageUpload (App.jsx:459-513) with one file: the FileReader and the
\* Image load are still to come; the closure keeps this render's
\* saveCurrentState
HandleImageUpload(size) ==
    /\ CanStep /\ currentIndex # -1
    /\ Len(canvasObjs) + Len(uploads) < MaxObjs
    /\ uploads' = Append(uploads, [kind |-> "image", cIdx |-> currentIndex,
                                   cId |-> ClosureId(pages, currentIndex),
                                   w |-> size[1], h |-> size[2], rot |-> 0,
                                   id |-> 0])
    /\ steps' = steps - 1
    /\ lastOp' = [kind |-> "imageUpload"]
    /\ bk' = [bk EXCEPT !.idem = "na"]
    /\ UNCHANGED <<pages, currentIndex, properties, draggedIndex, canvasObjs,
                   canvasBg, canvasDims, activeSel, isUpdating, loads, timers,
                   bakes, ex, isLoading>>

RemoveAt(s, i) == [j \in 1..(Len(s) - 1) |-> IF j < i THEN s[j] ELSE s[j + 1]]

\* imgObj.onload of handleImageUpload (App.jsx:474-508): the image goes on
\* whatever the surface shows now; handleObjectAdded saves with the current
\* render's closure, then the upload's own closure saves
ImageLoaded(i) ==
    LET u == uploads[i]
        oid == FreshOids(1)[1]
        obj == SetCoords(NewImage(oid, canvasDims[1] * 500, canvasDims[2] * 500,
                                  canvasDims[1], canvasDims[2], u.w, u.h, 0))
        objs == Append(canvasObjs, obj)
        json == ToJSON(objs, canvasBg, SavedProps)
    IN
    /\ i \in 1..Len(uploads) /\ u.kind = "image"
    /\ uploads' = RemoveAt(uploads, i)
    /\ canvasObjs' = objs
    /\ activeSel' = {oid}
    /\ properties' = SyncProperties(properties, obj)
    /\ pages' = SaveCurrentState(SaveObjs(pages, objs, canvasBg, isUpdating),
                                 u.cIdx, u.cId, isUpdating, json)
    /\ lastOp' = [kind |-> "imageLoaded", oid |-> oid]
    /\ bk' = [bk EXCEPT !.idem = "na"]
    /\ UNCHANGED <<currentIndex, draggedIndex, canvasBg, canvasDims,
                   isUpdating, loads, timers, bakes, steps, ex, isLoading>>

---------------------------------------------------------------------------
(* The callbacks of the page-load effect (App.jsx:345-385) *)

HasImages(doc) == \E i \in 1..Len(doc.objects) : doc.objects[i].type = "image"

\* The surface as loadFromJSON and its callback leave it.  A surface is a
\* record [objs, bg, sel, pages, timers, updating, need].

\* canvas.clear() inside loadFromJSON: each removal fires object:removed,
\* whose handler saves unless isUpdatingRef is set; the last of these saves
\* sees an empty surface that still has its background
JsonClear(cs) ==
    [cs EXCEPT
       !.pages = IF cs.objs = <<>> THEN @
                 ELSE SaveObjs(@, <<>>, cs.bg, cs.updating),
       !.objs = <<>>, !.bg = NoBg, !.sel = {}, !.need = {}]

\* a reload that sets no timer
NoLoadTimers(loaded, all) == {}

\* handleObjectAdded for the objects loadFromJSON inserts, and the timers of
\* its callback (App.jsx:350-356) for every mosaic then on the surface
LoadTimers(loaded, all) ==
    UNION {AddTimers(loaded[i]) : i \in 1..Len(loaded)}
    \cup {[oid |-> all[i].oid, kind |-> "loaded"] :
              i \in {j \in 1..Len(all) : all[j].isMosaic}}

\* a loadFromJSON whose callback leaves isUpdatingRef as it is
JsonFinishGuardKept(cs, doc, oids) ==
    LET loaded == LoadObjects(doc, oids)
        all == loaded \o cs.objs
        bg == IF doc.backgroundImage # NoBg THEN doc.backgroundImage ELSE cs.bg
    IN  [cs EXCEPT
           !.bg = bg,
           !.objs = all,
           !.pages = IF loaded = <<>> THEN @
                     ELSE SaveObjs(@, all, bg, cs.updating),
           !.timers = @ \cup LoadTimers(loaded, all),
           !.need = @ \cup {loaded[i].oid : i \in {j \in 1..Len(loaded) : loaded[j].isMosaic}}]

\* the rest of loadFromJSON(doc): the document's own background image, the
\* objects inserted from index 0 (each firing object:added, whose handler
\* saves unless isUpdatingRef is set), then the callback (App.jsx:347-359)
JsonFinish(cs, doc, oids) ==
    LET loaded == LoadObjects(doc, oids)
        all == loaded \o cs.objs
        bg == IF doc.backgroundImage # NoBg THEN doc.backgroundImage ELSE cs.bg
    IN  [cs EXCEPT
           !.bg = bg,
           !.objs = all,
           !.pages = IF loaded = <<>> THEN @
                     ELSE SaveObjs(@, all, bg, cs.updating),
           !.timers = @ \cup LoadTimers(loaded, all),
           !.need = @ \cup {loaded[i].oid : i \in {j \in 1..Len(loaded) : loaded[j].isMosaic}},
           !.updating = FALSE]

Surface == [objs |-> canvasObjs, bg |-> canvasBg, sel |-> activeSel,
            pages |-> pages, timers |-> timers, updating |-> isUpdating,
            need |-> bk.need]

\* the surface record written back to the variables
SetSurface(cs) ==
    /\ canvasObjs' = cs.objs
    /\ canvasBg' = cs.bg
    /\ activeSel' = cs.sel
    /\ pages' = cs.pages
    /\ timers' = cs.timers
    /\ isUpdating' = cs.updating
    /\ bk' = Prune([bk EXCEPT !.need = cs.need, !.idem = "na"], cs.objs)

\* the oids loadFromJSON(doc) gives its objects on surface cs
LoadOids(cs, doc) ==
    FreshFrom(OidsOf(cs.objs) \cup {t.oid : t \in timers}
              \cup {bakes[i].oid : i \in 1..Len(bakes)}, 1, Len(doc.objects))

\* fabric.Image.fromURL's callback (App.jsx:366-380): the background is set
\* and loadObjects runs; loadFromJSON first revives the objects, at once when
\* none of them is an image
LoadFromURLDone(i) ==
    LET l == loads[i]
        doc == l.page.fabricData
        cs0 == [Surface EXCEPT !.bg = [thumb |-> l.page.id, angle |-> l.page.rotation]]
        cs1 == JsonClear(cs0)
    IN
    /\ i \in 1..Len(loads) /\ l.stage = "fromURL"
    /\ IF doc.isNull
       THEN /\ SetSurface([cs0 EXCEPT !.updating = FALSE])
            /\ loads' = RemoveAt(loads, i)
       ELSE IF HasImages(doc)
       THEN /\ SetSurface(cs0)
            /\ loads' = [loads EXCEPT ![i].stage = "enliven"]
       ELSE IF doc.backgroundImage # NoBg
       THEN /\ SetSurface(cs1)
            /\ loads' = [loads EXCEPT ![i].stage = "bgOverlay"]
       ELSE /\ SetSurface(JsonFinish(cs1, doc, LoadOids(cs1, doc)))
            /\ loads' = RemoveAt(loads, i)
    /\ lastOp' = [kind |-> "fromURL"]
    /\ UNCHANGED <<currentIndex, properties, draggedIndex, canvasDims, bakes,
                   uploads, steps, ex, isLoading>>

\* loadFromJSON has revived the objects of the document: it clears the
\* surface and revives the document's background image
LoadEnlivened(i) ==
    LET l == loads[i]
        doc == l.page.fabricData
        cs1 == JsonClear(Surface)
    IN
    /\ i \in 1..Len(loads) /\ l.stage = "enliven"
    /\ IF doc.backgroundImage # NoBg
       THEN /\ SetSurface(cs1)
            /\ loads' = [loads EXCEPT ![i].stage = "bgOverlay"]
       ELSE /\ SetSurface(JsonFinish(cs1, doc, LoadOids(cs1, doc)))
            /\ loads' = RemoveAt(loads, i)
    /\ lastOp' = [kind |-> "enlivened"]
    /\ UNCHANGED <<currentIndex, properties, draggedIndex, canvasDims, bakes,
                   uploads, steps, ex, isLoading>>

\* loadFromJSON has revived the background image: it installs it, inserts
\* the objects and calls back
LoadBgDone(i) ==
    LET l == loads[i]
        doc == l.page.fabricData
    IN
    /\ i \in 1..Len(loads) /\ l.stage = "bgOverlay"
    /\ SetSurface(JsonFinish(Surface, doc, LoadOids(Surface, doc)))
    /\ loads' = RemoveAt(loads, i)
    /\ lastOp' = [kind |-> "loaded", page |-> l.page.id]
    /\ UNCHANGED <<currentIndex, properties, draggedIndex, canvasDims, bakes,
                   uploads, steps, ex, isLoading>>

---------------------------------------------------------------------------
(* Timers and the asynchronous half of the bake *)

\* A timer of handleObjectAdded (50 ms, App.jsx:280) or of the load callback
\* (100 ms, App.jsx:354) fires: updateMosaicContent(obj) up to img.src
\* (App.jsx:133-169).  The 100 ms timer of an object is set right after its
\* 50 ms timer, so it fires later.  updateMosaicContent does not ask
\* whether the object is still on the surface (App.jsx:134): for a removed
\* object it captures, from the surface as it is now, the region the object
\* was at.
TimerFire(t) ==
    LET i == IndexOf(canvasObjs, t.oid)
        req == BakeRequest(canvasObjs, canvasBg, activeSel, t.oid, TRUE,
                           Repeats(canvasObjs, canvasBg, t.oid))
        off == BakeRequestOff(canvasObjs, canvasBg, bk.gone[t.oid])
    IN
    /\ t \in timers
    /\ t.kind = "loaded" => [oid |-> t.oid, kind |-> "added"] \notin timers
    /\ timers' = timers \ {t}
    /\ IF OnCanvas(t.oid)
       THEN /\ canvasObjs' = [canvasObjs EXCEPT ![i] = Refreshed(@, activeSel)]
            /\ bakes' = bakes \o req
            /\ lastOp' = [kind |-> "timer", oid |-> t.oid]
       ELSE /\ UNCHANGED canvasObjs
            /\ bakes' = bakes \o off
            /\ lastOp' = [kind |-> "timerOff", oid |-> t.oid, req |-> off]
    /\ bk' = [bk EXCEPT !.idem = "na",
                        !.gone = StillHeld(@, timers', bakes')]
    /\ UNCHANGED <<pages, currentIndex, properties, draggedIndex, canvasBg,
                   canvasDims, activeSel, isUpdating, loads, uploads, steps, ex,
                   isLoading>>

\* img.onload of updateMosaicContent (App.jsx:170-204): the pixelated canvas
\* becomes the object's element; requestRenderAll then draws the surface,
\* and with it the controls of a singly selected object.  Nothing is saved.
\* For a removed object the element is set all the same; nothing refers to
\* that object's content afterwards, so the model does not keep it.
BakeOnload(n) ==
    LET b == bakes[n]
        i == IndexOf(canvasObjs, b.oid)
        o == canvasObjs[i]
        el == BakedElement(o, b.cap)
        objs == [canvasObjs EXCEPT ![i] = Refreshed(SetElement(o, el), activeSel)]
        again == /\ b.same /\ b.oid \in DOMAIN bk.last
                 /\ bk.last[b.oid] = SceneKey(canvasObjs, canvasBg)
        offEl == BakedElement(bk.gone[b.oid], b.cap)
    IN
    /\ n \in 1..Len(bakes)
    /\ bakes' = RemoveAt(bakes, n)
    /\ IF OnCanvas(b.oid)
       THEN /\ canvasObjs' = objs
            /\ bk' = [need |-> IF b.ans THEN bk.need \ {b.oid} ELSE bk.need,
                      last |-> [x \in DOMAIN bk.last \cup {b.oid} |->
                                  IF x = b.oid THEN SceneKey(objs, canvasBg)
                                  ELSE bk.last[x]],
                      idem |-> IF ~again THEN "na"
                               ELSE IF el = o.element THEN "same" ELSE "differs",
                      gone |-> bk.gone]
            /\ lastOp' = [kind |-> "baked", oid |-> b.oid, el |-> el]
       ELSE /\ UNCHANGED canvasObjs
            /\ bk' = [bk EXCEPT !.idem = "na",
                                !.gone = StillHeld(@, timers, bakes')]
            /\ lastOp' = [kind |-> "bakedOff", oid |-> b.oid, el |-> offEl]
    /\ UNCHANGED <<pages, currentIndex, properties, draggedIndex, canvasBg,
                   canvasDims, activeSel, isUpdating, loads, timers, uploads,
                   steps, ex, isLoading>>

---------------------------------------------------------------------------
(* Importing pages and the export (exportPDF, App.jsx:650-808) *)

\* the source pages a user imports: MediaBox width and height, and /Rotate
SourcePages == {<<600, 800, r>> : r \in Rotations}

\* pdf.js page.getViewport({scale: 2.0}) (App.jsx:407): the page as shown,
\* that is with its own /Rotate applied
ViewportDims(w, h, rot) ==
    IF rot % 180 # 0 THEN <<ViewportScale * h, ViewportScale * w>>
    ELSE <<ViewportScale * w, ViewportScale * h>>

\* the page record handleFileUpload builds (App.jsx:413-422)
NewPdfPage(id, w, h, rot) ==
    [id |-> id, pdfBytes |-> id, pageNum |-> 1, fabricData |-> NullData,
     width |-> ViewportDims(w, h, rot)[1], height |-> ViewportDims(w, h, rot)[2],
     rotation |-> 0, srcW |-> w, srcH |-> h, srcRot |-> rot]

\* handleFileUpload (App.jsx:393-424) with one one-page file, up to its
\* first await; the closure keeps this render's currentIndex
HandleFileUpload(src) ==
    /\ CanStep /\ Len(pages) + Len(uploads) < MaxPages
    /\ uploads' = Append(uploads, [kind |-> "pdf", cIdx |-> currentIndex,
                                   cId |-> ClosureId(pages, currentIndex),
                                   w |-> src[1], h |-> src[2], rot |-> src[3],
                                   id |-> steps])
    /\ steps' = steps - 1
    /\ lastOp' = [kind |-> "fileUpload"]
    /\ isLoading' = TRUE
    /\ UNCHANGED <<pages, currentIndex, properties, draggedIndex, canvasObjs,
                   canvasBg, canvasDims, activeSel, isUpdating, loads, timers,
                   bakes, ex, bk>>

\* the end of handleFileUpload (App.jsx:425-429)
FileParsed(i) ==
    LET u == uploads[i] IN
    /\ i \in 1..Len(uploads) /\ u.kind = "pdf"
    /\ uploads' = RemoveAt(uploads, i)
    /\ pages' = Append(pages, NewPdfPage(u.id, u.w, u.h, u.rot))
    /\ currentIndex' = IF u.cIdx = -1 THEN 0 ELSE currentIndex
    /\ PageLoadEffect
    /\ lastOp' = [kind |-> "fileParsed"]
    /\ isLoading' = FALSE
    /\ UNCHANGED <<properties, draggedIndex, timers, bakes, steps, ex>>

\* the files of one selection in the file dialog: one page each, and whether
\* pdf.js can decode the file
ImportFiles == [src : {<<600, 800, 0>>}, ok : BOOLEAN]

FileLists == UNION {[1..n -> ImportFiles] : n \in 1..MaxFiles}

\* handleFileUpload (App.jsx:393-400) with several files, up to its first
\* await: newPages is empty and the loop is at the first file
HandleFilesUpload(files) ==
    /\ CanStep /\ Len(uploads) < 2 /\ Len(pages) + Len(files) <= MaxPages
    /\ uploads' = Append(uploads, [kind |-> "pdfs", cIdx |-> currentIndex,
                                   files |-> files, at |-> 1, newPages |-> <<>>,
                                   id |-> 10 * steps])
    /\ steps' = steps - 1
    /\ lastOp' = [kind |-> "filesUpload"]
    /\ isLoading' = TRUE
    /\ UNCHANGED <<pages, currentIndex, properties, draggedIndex, canvasObjs,
                   canvasBg, canvasDims, activeSel, isUpdating, loads, timers,
                   bakes, ex, bk>>

\* what the catch of handleFileUpload keeps of the pages decoded before the
\* failing file (App.jsx:430-431): nothing, setPages is not reached
ImportCaught(newPages) == <<>>

\* one turn of the loop over the files (App.jsx:401-424): the file is decoded
\* and its page pushed on newPages; after the last file setPages appends
\* newPages (App.jsx:425-429); a file that cannot be decoded throws out of the
\* loop into the catch (App.jsx:430-434)
FileDecoded(i) ==
    LET u == uploads[i]
        f == u.files[u.at]
        np == Append(u.newPages, NewPdfPage(u.id + u.at, f.src[1], f.src[2], f.src[3]))
        appended == IF ~f.ok THEN ImportCaught(u.newPages)
                    ELSE IF u.at = Len(u.files) THEN np ELSE <<>>
    IN
    /\ i \in 1..Len(uploads) /\ u.kind = "pdfs"
    /\ IF f.ok /\ u.at < Len(u.files)
       THEN /\ uploads' = [uploads EXCEPT ![i].at = u.at + 1, ![i].newPages = np]
            /\ lastOp' = [kind |-> "fileDecoded"]
            /\ UNCHANGED <<pages, currentIndex, canvasObjs, canvasBg, canvasDims,
                           activeSel, isUpdating, loads, bk, isLoading>>
       ELSE /\ uploads' = RemoveAt(uploads, i)
            /\ pages' = pages \o appended
            /\ currentIndex' = IF f.ok /\ u.cIdx = -1 /\ Len(pages') > 0 THEN 0
                               ELSE currentIndex
            /\ PageLoadEffect
            /\ lastOp' = [kind |-> IF f.ok THEN "filesParsed" ELSE "filesFailed",
                          files |-> u.files, at |-> u.at, base |-> u.id]
            /\ isLoading' = FALSE
    /\ UNCHANGED <<properties, draggedIndex, timers, bakes, steps, ex>>

\* pdfPage.getRotation().angle of the page added to the output
\* (App.jsx:660-672): a copied page keeps its /Rotate, a new page has none
TargetRotation(page) == IF page.pdfBytes # 0 THEN page.srcRot ELSE 0

\* pdfPage.getSize() (App.jsx:676): the MediaBox of the copied page, or the
\* size given to addPage (App.jsx:669)
TargetSize(page) ==
    IF page.pdfBytes # 0 THEN <<page.srcW, page.srcH>>
    ELSE <<page.width, page.height>>

\* the angle given to pdfPage.setRotation (App.jsx:672-673); pdf-lib stores
\* the angle it is given
ExportRotation(page) == TargetRotation(page) + page.rotation

\* an overlay canvas of the page's own width and height
ExportDimsAsStored(page) == <<page.width, page.height>>

\* the size of the overlay canvas (App.jsx:675-683)
ExportDims(page) ==
    IF page.rotation % 180 # 0 THEN <<page.height, page.width>>
    ELSE <<page.width, page.height>>

\* the overlay drawn with the target page's width and height at any rotation
PlacementUnswapped(page) ==
    LET pdfWidth == TargetSize(page)[1]
        pdfHeight == TargetSize(page)[2]
        rot == page.rotation % 360
    IN  [x |-> IF rot = 90 \/ rot = 180 THEN pdfWidth ELSE 0,
         y |-> IF rot = 180 \/ rot = 270 THEN pdfHeight ELSE 0,
         width |-> pdfWidth, height |-> pdfHeight, rotate |-> rot]

\* the arguments of pdfPage.drawImage (App.jsx:772-791)
Placement(page) ==
    LET isRotated == page.rotation % 180 # 0
        pdfWidth == TargetSize(page)[1]
        pdfHeight == TargetSize(page)[2]
        rot == page.rotation % 360
    IN  IF page.rotation = 0
        THEN [x |-> 0, y |-> 0, width |-> pdfWidth, height |-> pdfHeight,
              rotate |-> 0]
        ELSE [x |-> IF rot = 90 \/ rot = 180 THEN pdfWidth ELSE 0,
              y |-> IF rot = 180 \/ rot = 270 THEN pdfHeight ELSE 0,
              width |-> IF isRotated THEN pdfHeight ELSE pdfWidth,
              height |-> IF isRotated THEN pdfWidth ELSE pdfHeight,
              rotate |-> rot]

\* one turn of the loop over the objects of the static canvas for a mosaic
\* at position i (App.jsx:717-753): it loses its outline and is baked from a
\* capture of the whole canvas, itself included
ExportBakeOne(objs, bg, i) ==
    LET o == [objs[i] EXCEPT !.stroke = "transparent"]
        r == BoundingRect(o)
        objs1 == [objs EXCEPT ![i] = o]
        cap == [rect |-> r, bg |-> bg, layers |-> Drawn(objs1, 0, r)]
    IN  [objs1 EXCEPT ![i] = SetElement(o, BakedElement(o, cap))]

RECURSIVE ExportBake(_, _, _)
\* the loop over the objects of the static canvas (App.jsx:713-756) from
\* position i on: every mosaic is baked when the canvas has a background
ExportBake(objs, bg, i) ==
    IF i > Len(objs) THEN objs
    ELSE IF ~objs[i].isMosaic \/ bg = NoBg THEN ExportBake(objs, bg, i + 1)
    ELSE ExportBake(ExportBakeOne(objs, bg, i), bg, i + 1)

\* a loop that waits for no bake
NoNextMosaic(objs, bg, i) == 0

\* the position, from i on, of the next mosaic whose bake the loop awaits
\* (App.jsx:714-734); 0 when there is none and the loop ends
NextMosaic(objs, bg, i) ==
    LET todo == {j \in i..Len(objs) : objs[j].isMosaic /\ bg # NoBg}
    IN  IF todo = {} THEN 0 ELSE CHOOSE j \in todo : \A k \in todo : j <= k

\* the overlay of a page: the objects of its scene as drawn on the static
\* canvas once the background has been taken away (App.jsx:709-766);
\* loadFromJSON replaces the background set before it (App.jsx:690-706) by
\* the one of the document
ExportScene(page) ==
    LET doc == page.fabricData
        bg == doc.backgroundImage
        objs == LoadObjects(doc, [i \in 1..Len(doc.objects) |-> i])
    IN  IF doc.isNull THEN <<>> ELSE ExportBake(objs, bg, 1)

\* overlayCanvas.toDataURL('image/png') (App.jsx:767): "data:," for a canvas
\* without pixels, that is of width or height 0, and a PNG of the canvas
\* otherwise, whatever is drawn on it
OverlayDataURL(page) ==
    IF ExportDims(page)[1] = 0 \/ ExportDims(page)[2] = 0 THEN "data:,"
    ELSE "data:image/png"

\* what exportPDF does for one page (App.jsx:658-793)
ExportedPage(page) ==
    [id |-> page.id,
     pageRotation |-> page.rotation,
     existing |-> TargetRotation(page),
     rotation |-> ExportRotation(page),
     size |-> TargetSize(page),
     overlay |-> ExportDims(page),
     surface |-> LoadDims(page),
     fit |-> FitDims(page),
     width |-> page.width, height |-> page.height,
     scene |-> ExportScene(page),
     embedded |-> OverlayDataURL(page) # "data:,",
     draw |-> Placement(page)]

\* the pages as the active page's live surface would give them
ExportSourceLive ==
    IF HasPage(pages, currentIndex)
    THEN [pages EXCEPT ![currentIndex + 1].fabricData = LiveJSON]
    ELSE pages

\* the pages the loop of exportPDF runs over (App.jsx:658): the Page Store of
\* the render the button was clicked in
ExportSource == pages

\* the export that has not begun one page's work; stage says what the async
\* function waits for, cur and bg are the static canvas of the page at hand,
\* log lists what has completed
NewExport(pgs) ==
    [kind |-> "running", pages |-> pgs, out |-> <<>>, stage |-> "page",
     cur |-> <<>>, bg |-> NoBg, next |-> 0, log |-> <<>>, download |-> FALSE]

\* exportPDF up to its first await (App.jsx:650-655); the button is disabled
\* while isLoading (App.jsx:906)
ExportStart ==
    /\ CanStep /\ ~isLoading /\ ex.kind # "running" /\ Len(pages) > 0
    /\ ex' = NewExport(ExportSource)
    /\ isLoading' = TRUE
    /\ steps' = steps - 1
    /\ lastOp' = [kind |-> "exportStart"]
    /\ UNCHANGED <<pages, currentIndex, properties, draggedIndex, canvasObjs,
                   canvasBg, canvasDims, activeSel, isUpdating, loads, timers,
                   bakes, uploads, bk>>

\* the number of the page the loop is at
ExportAt == Len(ex.out) + 1

\* the variables no step of the export touches
ExportFrame ==
    UNCHANGED <<pages, currentIndex, properties, draggedIndex, canvasObjs,
                canvasBg, canvasDims, activeSel, isUpdating, loads, timers,
                bakes, uploads, steps, bk>>

\* the start of a turn of the loop (App.jsx:658-706): the page is copied or
\* added, turned, and the static canvas asks for the thumbnail
ExportAddPage ==
    /\ ex.kind = "running" /\ ex.stage = "page"
    /\ ex' = [ex EXCEPT !.stage = "bg", !.cur = <<>>, !.bg = NoBg, !.next = 0,
                        !.log = Append(@, <<ExportAt, "page">>)]
    /\ lastOp' = [kind |-> "exportAddPage"]
    /\ UNCHANGED isLoading
    /\ ExportFrame

\* fabric.Image.fromURL's callback (App.jsx:692-704): the background is set;
\* a page with a stored scene goes on to loadFromJSON (App.jsx:709-711)
ExportBgLoaded ==
    LET page == ex.pages[ExportAt] IN
    /\ ex.kind = "running" /\ ex.stage = "bg"
    /\ ex' = [ex EXCEPT
                !.bg = [thumb |-> page.id, angle |-> page.rotation],
                !.stage = IF page.fabricData.isNull THEN "embed" ELSE "scene",
                !.log = Append(@, <<ExportAt, "bg">>)]
    /\ lastOp' = [kind |-> "exportBg"]
    /\ UNCHANGED isLoading
    /\ ExportFrame

\* the callback of loadFromJSON on the static canvas (App.jsx:711-734) up to
\* its first await: the scene and its background are on the canvas
ExportSceneLoaded ==
    LET doc == ex.pages[ExportAt].fabricData
        objs == LoadObjects(doc, [i \in 1..Len(doc.objects) |-> i])
        n == NextMosaic(objs, doc.backgroundImage, 1)
    IN
    /\ ex.kind = "running" /\ ex.stage = "scene"
    /\ ex' = [ex EXCEPT
                !.cur = objs, !.bg = doc.backgroundImage, !.next = n,
                !.stage = IF n = 0 THEN "embed" ELSE "bake",
                !.log = Append(@, <<ExportAt, "scene">>)]
    /\ lastOp' = [kind |-> "exportScene"]
    /\ UNCHANGED isLoading
    /\ ExportFrame

\* img.onload of a mosaic's bake on the static canvas (App.jsx:735-752) and
\* the loop up to its next await or its end (App.jsx:757-758)
ExportMosaicBaked ==
    LET objs == ExportBakeOne(ex.cur, ex.bg, ex.next)
        n == NextMosaic(objs, ex.bg, ex.next + 1)
    IN
    /\ ex.kind = "running" /\ ex.stage = "bake"
    /\ ex' = [ex EXCEPT
                !.cur = objs, !.next = n,
                !.stage = IF n = 0 THEN "embed" ELSE "bake",
                !.log = Append(@, <<ExportAt, "bake">>)]
    /\ lastOp' = [kind |-> "exportBake"]
    /\ UNCHANGED isLoading
    /\ ExportFrame

\* the end of a turn of the loop (App.jsx:762-794): the background is taken
\* away, the canvas is embedded and drawn on the page
ExportPage ==
    LET page == ex.pages[ExportAt] IN
    /\ ex.kind = "running" /\ ex.stage = "embed"
    /\ ex' = [ex EXCEPT
                !.out = Append(@, [ExportedPage(page) EXCEPT !.scene = ex.cur]),
                !.stage = IF ExportAt = Len(ex.pages) THEN "save" ELSE "page",
                !.log = Append(@, <<ExportAt, "embed">>)]
    /\ lastOp' = [kind |-> "exportPage"]
    /\ UNCHANGED isLoading
    /\ ExportFrame

\* an export caught with a part of the document handed out all the same
ExportCaughtPartial(e) == [e EXCEPT !.kind = "failed", !.download = TRUE]

\* catch (App.jsx:802-804): the error is shown; nothing is handed out
ExportCaught(e) == [e EXCEPT !.kind = "failed"]

\* An awaited call of the loop or a statement of its body throws: loading or
\* copying the source (App.jsx:663-667), rasterising and embedding the
\* overlay (App.jsx:768-770), saving the document (App.jsx:796); then catch
\* and finally (App.jsx:802-807)
ExportFail ==
    /\ ex.kind = "running" /\ ex.stage \in {"page", "embed", "save"}
    /\ ex' = ExportCaught(ex)
    /\ isLoading' = FALSE
    /\ lastOp' = [kind |-> "exportFailed"]
    /\ ExportFrame

\* the document is saved and downloaded (App.jsx:796-801), then finally
\* (App.jsx:805-807)
ExportDone ==
    /\ ex.kind = "running" /\ ex.stage = "save"
    /\ ex' = [ex EXCEPT !.kind = "done", !.download = TRUE]
    /\ isLoading' = FALSE
    /\ lastOp' = [kind |-> "exportDone"]
    /\ ExportFrame

---------------------------------------------------------------------------
(* Specifications *)

\* the state after the first render: no pages, an empty 800 x 600 surface
\* (App.jsx:63-82, 232-252); op is what lastOp starts as
Empty(op) ==
    /\ pages = <<>>
    /\ currentIndex = -1
    /\ properties = [color |-> "#ef4444", opacity |-> 1000, size |-> 5]
    /\ draggedIndex = -1
    /\ canvasObjs = <<>>
    /\ canvasBg = NoBg
    /\ canvasDims = <<800, 600>>
    /\ activeSel = {}
    /\ isUpdating = FALSE
    /\ loads = <<>>
    /\ timers = {}
    /\ bakes = <<>>
    /\ uploads = <<>>
    /\ steps = MaxSteps
    /\ lastOp = op
    /\ ex = [kind |-> "idle"]
    /\ isLoading = FALSE
    /\ bk = [need |-> {}, last |-> <<>>, idem |-> "na", gone |-> <<>>]

Init == Empty(Idle)

RECURSIVE Shapes(_)
\* the surface after addShape for each type of types in turn, on the first
\* blank page: the objects, the style properties and the timers
Shapes(types) ==
    IF types = <<>>
    THEN [objs |-> <<>>, props |-> [color |-> "#ef4444", opacity |-> 1000, size |-> 5],
          timers |-> {}]
    ELSE LET n == Len(types)
             prev == Shapes(SubSeq(types, 1, n - 1))
             obj == SetCoords(NewShape(types[n], n, BlankW * 500, BlankH * 500,
                                       prev.props))
         IN  [objs |-> Append(prev.objs, obj),
              props |-> SyncProperties(prev.props, obj),
              timers |-> prev.timers \cup AddTimers(obj)]

\* two blank pages added, the first one active and loaded, shapes of the
\* given types added to it, and budget user operations to come
Editing(types, budget) ==
    LET sh == Shapes(types)
        bg == [thumb |-> 101, angle |-> 0]
        n == Len(types)
    IN
    /\ pages = <<[NewBlankPage(101) EXCEPT
                    !.fabricData = IF n = 0 THEN NullData
                                   ELSE ToJSON(sh.objs, bg, SavedProps)],
                 NewBlankPage(102)>>
    /\ currentIndex = 0
    /\ properties = sh.props
    /\ draggedIndex = -1
    /\ canvasObjs = sh.objs
    /\ canvasBg = bg
    /\ canvasDims = <<BlankW, BlankH>>
    /\ activeSel = IF n = 0 THEN {} ELSE {n}
    /\ isUpdating = FALSE
    /\ loads = <<>>
    /\ timers = sh.timers
    /\ bakes = <<>>
    /\ uploads = <<>>
    /\ steps = budget
    /\ lastOp = IF n = 0 THEN Idle ELSE [kind |-> "addShape", oid |-> n]
    /\ ex = [kind |-> "idle"]
    /\ isLoading = FALSE
    /\ bk = [need |-> {sh.objs[i].oid : i \in {j \in 1..n : sh.objs[j].isMosaic}},
             last |-> <<>>, idem |-> "na", gone |-> <<>>]

\* pages, their order and the active page
NextPages ==
    \/ AddBlankPage
    \/ \E idx \in 0..(Len(pages) - 1) : SelectPage(idx)
    \/ \E idx \in 0..(Len(pages) - 1), d \in {-1, 1} : MovePage(idx, d)
    \/ \E idx \in 0..(Len(pages) - 1) : DragStart(idx)
    \/ \E idx \in 0..(Len(pages) - 1) : Drop(idx)
    \/ \E idx \in 0..(Len(pages) - 1) : RotatePage(idx)
    \/ \E idx \in 0..(Len(pages) - 1) : DeletePage(idx)
    \/ \E i \in 1..Len(loads) : LoadFromURLDone(i)

SpecPages == Init /\ [][NextPages]_vars

\* import of several files at once, next to blank pages
NextImport ==
    \/ AddBlankPage
    \/ \E files \in FileLists : HandleFilesUpload(files)
    \/ \E i \in 1..Len(uploads) : FileDecoded(i)
    \/ \E i \in 1..Len(loads) : LoadFromURLDone(i)

SpecImport == Init /\ [][NextImport]_vars

\* the page list and the scene of the active page changing together
NextList ==
    \/ AddBlankPage
    \/ \E idx \in 0..(Len(pages) - 1) : SelectPage(idx)
    \/ \E idx \in 0..(Len(pages) - 1), d \in {-1, 1} : MovePage(idx, d)
    \/ \E idx \in 0..(Len(pages) - 1) : DragStart(idx)
    \/ \E idx \in 0..(Len(pages) - 1) : Drop(idx)
    \/ \E idx \in 0..(Len(pages) - 1) : RotatePage(idx)
    \/ \E idx \in 0..(Len(pages) - 1) : DeletePage(idx)
    \/ AddShape("rect")
    \/ \E i \in 1..Len(loads) : LoadFromURLDone(i)
    \/ \E i \in 1..Len(loads) : LoadBgDone(i)

SpecList == Init /\ [][NextList]_vars

\* switching between a page with a text and an empty page and turning them,
\* the callbacks of the loads running in the order the loads were started
NextSwitch ==
    \/ \E idx \in 0..(Len(pages) - 1) : SelectPage(idx)
    \/ \E idx \in 0..(Len(pages) - 1) : RotatePage(idx)
    \/ loads # <<>> /\ LoadFromURLDone(1)
    \/ loads # <<>> /\ LoadBgDone(1)

InitSwitch == Editing(<<"text">>, MaxSwitches)

SpecSwitch == InitSwitch /\ [][NextSwitch]_vars

\* every kind of edit on a page with a text and a mosaic, with the page
\* switched away and back
NextEdit ==
    \/ AddShape("rect")
    \/ \E oid \in OidsOf(canvasObjs) : SelectObjects({oid}, oid)
    \/ \E oid \in OidsOf(canvasObjs), v \in DragLefts : ModifyObject(oid, "left", v)
    \/ \E value \in StyleValues["size"] : UpdateSelectedObject("size", value)
    \/ DeleteSelected
    \/ \E direction \in LayerMoves : MoveLayer(direction)
    \/ \E idx \in 0..(Len(pages) - 1) : SelectPage(idx)
    \/ \E i \in 1..Len(loads) : LoadFromURLDone(i)
    \/ \E i \in 1..Len(loads) : LoadEnlivened(i)
    \/ \E i \in 1..Len(loads) : LoadBgDone(i)
    \/ \E t \in timers : TimerFire(t)
    \/ \E n \in 1..Len(bakes) : BakeOnload(n)

InitEdit == Editing(<<"text", "mosaic">>, MaxSceneEdits)

SpecEdit == InitEdit /\ [][NextEdit]_vars

\* the same page and the same operations with a shorter run of edits
InitStore == Editing(<<"text", "mosaic">>, MaxStoreEdits)

SpecStore == InitStore /\ [][NextEdit]_vars

\* import, rotation and export of a short document
NextExport ==
    \/ Len(pages) + Len(uploads) < MaxExportPages /\ AddBlankPage
    \/ /\ Len(pages) + Len(uploads) < MaxExportPages
       /\ \E src \in SourcePages : HandleFileUpload(src)
    \/ \E i \in 1..Len(uploads) : FileParsed(i)
    \/ \E idx \in 0..(Len(pages) - 1) : RotatePage(idx)
    \/ \E i \in 1..Len(loads) : LoadFromURLDone(i)
    \/ ExportStart
    \/ ExportAddPage
    \/ ExportBgLoaded
    \/ ExportPage
    \/ ExportDone

SpecExport == Init /\ [][NextExport]_vars

\* editing the scene of the active page, with reloads of the scene by
\* rotating or switching pages, and what happens without the user
NextScene ==
    \/ \E idx \in 0..(Len(pages) - 1) : SelectPage(idx)
    \/ \E idx \in 0..(Len(pages) - 1) : RotatePage(idx)
    \/ \E type \in ShapeTypes : AddShape(type)
    \/ \E sel \in SUBSET OidsOf(canvasObjs) : \E first \in sel : SelectObjects(sel, first)
    \/ \E oid \in OidsOf(canvasObjs), v \in DragLefts : ModifyObject(oid, "left", v)
    \/ \E oid \in OidsOf(canvasObjs), v \in DragScales : ModifyObject(oid, "scaleX", v)
    \/ \E key \in DOMAIN StyleValues : \E value \in StyleValues[key] :
          UpdateSelectedObject(key, value)
    \/ \E size \in ImageSizes : HandleImageUpload(size)
    \/ \E i \in 1..Len(uploads) : ImageLoaded(i)
    \/ \E i \in 1..Len(loads) : LoadFromURLDone(i)
    \/ \E i \in 1..Len(loads) : LoadEnlivened(i)
    \/ \E i \in 1..Len(loads) : LoadBgDone(i)
    \/ \E t \in timers : TimerFire(t)
    \/ \E n \in 1..Len(bakes) : BakeOnload(n)

InitEditing == Editing(<<>>, MaxEdits)

SpecScene == InitEditing /\ [][NextScene]_vars

\* selecting among the objects of a page and restyling the selection
NextStyle ==
    \/ \E sel \in SUBSET OidsOf(canvasObjs) : \E first \in sel : SelectObjects(sel, first)
    \/ \E key \in DOMAIN StyleValues : \E value \in StyleValues[key] :
          UpdateSelectedObject(key, value)
    \/ \E t \in timers : TimerFire(t)
    \/ \E n \in 1..Len(bakes) : BakeOnload(n)

\* the shape tools in the order of the toolbar
ToolOrder == <<"rect", "rect-outline", "arrow", "text", "mosaic">>

\* one to MaxObjs shapes have been added to the first page, with tools that
\* follow each other in the toolbar
InitStyle ==
    \E n \in 1..MaxObjs : \E k \in 0..(Len(ToolOrder) - 1) :
        Editing([i \in 1..n |-> ToolOrder[((k + i - 1) % Len(ToolOrder)) + 1]],
                MaxStyleEdits)

SpecStyle == InitStyle /\ [][NextStyle]_vars

\* the captured regions (in thousandths of a pixel) and block sizes a bake
\* is tried on; block size 0 stands for a missing one
Regions ==
    {<<500 * w, 500 * h>> : w \in 2..(2 * MaxRegion), h \in 2..(2 * MaxRegion)}
    \cup {<<MosaicW * 1000, MosaicH * 1000>>}
BlockSizes == 0..MaxBlock \cup {DefaultMosaicSize}

\* a mosaic of block size b with a capture of a w x h region waiting for
\* img.onload
InitMosaic ==
    \E r \in Regions, b \in BlockSizes :
        Empty([kind |-> "captured", w |-> r[1], h |-> r[2], b |-> b])

\* img.onload of a bake (App.jsx:170-196, 735-750) on the capture of lastOp
Pixelate ==
    LET o == [NewShape("mosaic", 1, 0, 0, properties) EXCEPT !.mosaicSize = lastOp.b]
        cap == [rect |-> [left |-> 0, top |-> 0, width |-> lastOp.w,
                          height |-> lastOp.h],
                bg |-> NoBg, layers |-> <<>>]
    IN
    /\ lastOp.kind = "captured"
    /\ lastOp' = [kind |-> "pixelated", w |-> lastOp.w, h |-> lastOp.h,
                  b |-> lastOp.b, el |-> BakedElement(o, cap)]
    /\ UNCHANGED <<pages, currentIndex, properties, draggedIndex, canvasObjs,
                   canvasBg, canvasDims, activeSel, isUpdating, loads, timers,
                   bakes, uploads, steps, ex, bk,
                   isLoading>>

SpecMosaic == InitMosaic /\ [][Pixelate]_vars

\* a mosaic, just added, and what re-bakes it
NextLive ==
    \/ \E idx \in 0..(Len(pages) - 1) : SelectPage(idx)
    \/ \E oid \in OidsOf(canvasObjs), v \in DragScales : ModifyObject(oid, "scaleX", v)
    \/ \E value \in StyleValues["size"] : UpdateSelectedObject("size", value)
    \/ \E i \in 1..Len(loads) : LoadFromURLDone(i)
    \/ \E i \in 1..Len(loads) : LoadEnlivened(i)
    \/ \E i \in 1..Len(loads) : LoadBgDone(i)
    \/ \E t \in timers : TimerFire(t)
    \/ \E n \in 1..Len(bakes) : BakeOnload(n)

\* the browser runs every callback and every timer that is due
FairLive ==
    /\ WF_vars(\E i \in 1..Len(loads) : LoadFromURLDone(i))
    /\ WF_vars(\E i \in 1..Len(loads) : LoadEnlivened(i))
    /\ WF_vars(\E i \in 1..Len(loads) : LoadBgDone(i))
    /\ WF_vars(\E t \in timers : TimerFire(t))
    /\ WF_vars(\E n \in 1..Len(bakes) : BakeOnload(n))

\* a mosaic has just been added to the first page
InitLive == Editing(<<"mosaic">>, MaxLiveEdits)

SpecLive == InitLive /\ [][NextLive]_vars /\ FairLive

\* turning the pages of a document whose first page has a mosaic
NextRotate ==
    \/ \E idx \in 0..(Len(pages) - 1) : RotatePage(idx)
    \/ \E i \in 1..Len(loads) : LoadFromURLDone(i)
    \/ \E i \in 1..Len(loads) : LoadEnlivened(i)
    \/ \E i \in 1..Len(loads) : LoadBgDone(i)
    \/ \E t \in timers : TimerFire(t)
    \/ \E n \in 1..Len(bakes) : BakeOnload(n)

InitRotate == Editing(<<"mosaic">>, MaxRotations)

SpecRotate == InitRotate /\ [][NextRotate]_vars

\* exporting a document whose first page has a mosaic, while the surface is
\* edited and baked, with exports that fail
NextExportScene ==
    \/ \E oid \in OidsOf(canvasObjs), v \in DragLefts : ModifyObject(oid, "left", v)
    \/ \E t \in timers : TimerFire(t)
    \/ \E n \in 1..Len(bakes) : BakeOnload(n)
    \/ ExportStart
    \/ ExportAddPage
    \/ ExportBgLoaded
    \/ ExportSceneLoaded
    \/ ExportMosaicBaked
    \/ ExportPage
    \/ ExportFail
    \/ ExportDone

InitExportScene == Editing(<<"mosaic">>, MaxExportEdits)

SpecExportScene == InitExportScene /\ [][NextExportScene]_vars

---------------------------------------------------------------------------
(* The synchronous half of a bake with the object's visible flag
   (updateMosaicContent, App.jsx:133-169) *)

\* a live object with fabric's visible property
WithVisible(o, v) ==
    [f \in DOMAIN o \cup {"visible"} |-> IF f = "visible" THEN v ELSE o[f]]

\* a bake that leaves the object as the capture needed it
LeaveHidden(o, originalVisible) == o

\* obj.visible = originalVisible (App.jsx:149, 166)
RestoreVisible(o, originalVisible) == [o EXCEPT !.visible = originalVisible]

\* updateMosaicContent(obj) up to img.src = dataUrl (App.jsx:134-169) for the
\* object oid of objs: the object as the call leaves it, the request that
\* waits for img.onload (<<>> after an early return), and whether the
\* rectangle was found empty
UpdateMosaicContent(objs, bg, sel, oid, ans, same) ==
    LET found == objs[IndexOf(objs, oid)]
        originalVisible == found.visible
        hidden == Refreshed([found EXCEPT !.visible = FALSE], sel)
        rect == BoundingRect(hidden)
        degenerate == rect.width <= 0 \/ rect.height <= 0
        shown == RestoreVisible(hidden, originalVisible)
    IN  IF ~found.isMosaic
        THEN [obj |-> found, req |-> <<>>, degenerate |-> FALSE]
        ELSE [obj |-> shown,
              req |-> IF degenerate THEN <<>>
                      ELSE <<[oid |-> oid, cap |-> Capture(objs, bg, oid, rect),
                              ans |-> ans, same |-> same]>>,
              degenerate |-> degenerate]

\* the scales a resize gesture can leave an object at; at 0 the bounding
\* rectangle is empty
ResizeScales == {0, 500, 1000, 1500}

\* The end of a resize gesture on object oid at scale sx, sy: object:modified
\* and handleModified (App.jsx:267-274), which re-bakes a mosaic and saves
HandleModified(oid, sx, sy) ==
    LET i == IndexOf(canvasObjs, oid)
        o == SetCoords([canvasObjs[i] EXCEPT !.scaleX = sx, !.scaleY = sy])
        objs == [canvasObjs EXCEPT ![i] = o]
        u == UpdateMosaicContent(objs, canvasBg, {oid}, oid, TRUE, FALSE)
        after == [objs EXCEPT ![i] = u.obj]
    IN
    /\ CanStep
    /\ OnCanvas(oid)
    /\ activeSel \in {{}, {oid}}
    /\ <<canvasObjs[i].scaleX, canvasObjs[i].scaleY>> # <<sx, sy>>
    /\ activeSel' = {oid}
    /\ canvasObjs' = after
    /\ bakes' = Superseded(bakes, oid) \o u.req
    /\ pages' = SaveObjs(pages, after, canvasBg, isUpdating)
    /\ bk' = [bk EXCEPT !.need = @ \cup {oid}, !.idem = "na"]
    /\ steps' = steps - 1
    /\ lastOp' = [kind |-> "updateMosaicContent", oid |-> oid,
                  before |-> o, degenerate |-> u.degenerate]
    /\ UNCHANGED <<currentIndex, properties, draggedIndex, canvasBg, canvasDims,
                   isUpdating, loads, timers, uploads, ex, isLoading>>

\* the timer of handleObjectAdded (App.jsx:280) fires for an object of the
\* surface
TimerCapture(t) ==
    LET i == IndexOf(canvasObjs, t.oid)
        u == UpdateMosaicContent(canvasObjs, canvasBg, activeSel, t.oid, TRUE,
                                 Repeats(canvasObjs, canvasBg, t.oid))
    IN
    /\ t \in timers
    /\ OnCanvas(t.oid)
    /\ timers' = timers \ {t}
    /\ canvasObjs' = [canvasObjs EXCEPT ![i] = u.obj]
    /\ bakes' = bakes \o u.req
    /\ bk' = [bk EXCEPT !.idem = "na"]
    /\ lastOp' = [kind |-> "updateMosaicContent", oid |-> t.oid,
                  before |-> canvasObjs[i], degenerate |-> u.degenerate]
    /\ UNCHANGED <<pages, currentIndex, properties, draggedIndex, canvasBg,
                   canvasDims, activeSel, isUpdating, loads, uploads, steps, ex,
                   isLoading>>

NextCapture ==
    \/ \E oid \in OidsOf(canvasObjs), sx \in ResizeScales, sy \in ResizeScales :
          HandleModified(oid, sx, sy)
    \/ \E t \in timers : TimerCapture(t)
    \/ \E n \in 1..Len(bakes) : BakeOnload(n)

\* one page with a mosaic just added by addShape, shown as fabric makes
\* every object, and MaxCaptures gestures to come
InitCapture ==
    LET sh == Shapes(<<"mosaic">>)
        objs == [i \in 1..Len(sh.objs) |-> WithVisible(sh.objs[i], TRUE)]
        bg == [thumb |-> 101, angle |-> 0]
    IN
    /\ pages = <<[NewBlankPage(101) EXCEPT
                    !.fabricData = ToJSON(objs, bg, SavedProps)]>>
    /\ currentIndex = 0
    /\ properties = sh.props
    /\ draggedIndex = -1
    /\ canvasObjs = objs
    /\ canvasBg = bg
    /\ canvasDims = <<BlankW, BlankH>>
    /\ activeSel = {1}
    /\ isUpdating = FALSE
    /\ loads = <<>>
    /\ timers = sh.timers
    /\ bakes = <<>>
    /\ uploads = <<>>
    /\ steps = MaxCaptures
    /\ lastOp = [kind |-> "addShape", oid |-> 1]
    /\ ex = [kind |-> "idle"]
    /\ isLoading = FALSE
    /\ bk = [need |-> {1}, last |-> <<>>, idem |-> "na", gone |-> <<>>]

SpecCapture == InitCapture /\ [][NextCapture]_vars

\* page loads started by page switches, rotations and deletions, on a
\* document whose first page has a mosaic and whose second page has no scene;
\* the bake timers that the loads set neither read nor write the guard and
\* are left pending
NextLoad ==
    \/ \E idx \in 0..(Len(pages) - 1) : SelectPage(idx)
    \/ \E idx \in 0..(Len(pages) - 1) : RotatePage(idx)
    \/ \E idx \in 0..(Len(pages) - 1) : DeletePage(idx)
    \/ \E i \in 1..Len(loads) : LoadFromURLDone(i)
    \/ \E i \in 1..Len(loads) : LoadEnlivened(i)
    \/ \E i \in 1..Len(loads) : LoadBgDone(i)

\* the callbacks of a load fire once they are due (Image.fromURL,
\* setBackgroundImage and loadFromJSON, App.jsx:347-380)
FairLoad ==
    /\ WF_vars(\E i \in 1..Len(loads) : LoadFromURLDone(i))
    /\ WF_vars(\E i \in 1..Len(loads) : LoadEnlivened(i))
    /\ WF_vars(\E i \in 1..Len(loads) : LoadBgDone(i))

InitLoad == Editing(<<"mosaic">>, MaxLoads)

SpecLoad == InitLoad /\ [][NextLoad]_vars /\ FairLoad

---------------------------------------------------------------------------
(* Properties *)

\* C1: a reorder (movePage or a drop) moves the page at index from to index
\* to, the other pages keep their relative order, and when the moved page
\* was the active page the active index becomes to
PageReorderLaw ==
    lastOp.kind \in {"movePage", "drop"} =>
        /\ Ids(pages)[lastOp.to + 1] = lastOp.ids[lastOp.from + 1]
        /\ RemoveAt(Ids(pages), lastOp.to + 1) = RemoveAt(lastOp.ids, lastOp.from + 1)
        /\ (lastOp.cur = lastOp.from => currentIndex = lastOp.to)

\* the active page was dragged to another place and the active index stayed
DropLeavesActiveIndex ==
    /\ lastOp.kind = "drop"
    /\ lastOp.cur = lastOp.from /\ lastOp.from # lastOp.to
    /\ Ids(pages)[lastOp.to + 1] = lastOp.ids[lastOp.from + 1]
    /\ currentIndex = lastOp.from

\* the scene of the active page as stored is the scene on the surface
StoredIsLive ==
    /\ HasPage(pages, currentIndex)
    /\ pages[currentIndex + 1].fabricData = LiveJSON

\* the objects a stored scene gives when it is loaded
Reloaded(doc) == LoadObjects(doc, [i \in 1..Len(doc.objects) |-> i])

\* C2: a scene written by saveCurrentState and read back by loadFromJSON has
\* as many objects, in the same order, with the same type and the same
\* persisted fields as the surface it was written from
RoundTripLaw ==
    StoredIsLive =>
        LET back == Reloaded(pages[currentIndex + 1].fabricData) IN
        /\ Len(back) = Len(canvasObjs)
        /\ \A i \in 1..Len(back) : Persisted(back[i]) = Persisted(canvasObjs[i])

\* an inserted image is stored with its scale rounded to two fraction digits
RoundTripLosesScale ==
    /\ StoredIsLive
    /\ \E i \in 1..Len(canvasObjs) :
          /\ canvasObjs[i].type = "image" /\ ~canvasObjs[i].isMosaic
          /\ Reloaded(LiveJSON)[i].scaleX # canvasObjs[i].scaleX

\* C3: no scene in the Page Store holds baked or captured pixels of a mosaic
NoMosaicPixelsStored ==
    \A p \in 1..Len(pages) :
        \A i \in 1..Len(pages[p].fabricData.objects) :
            pages[p].fabricData.objects[i].isMosaic =>
                pages[p].fabricData.objects[i].src.kind # "baked"

\* a save after a finished bake stored the mosaic's baked element
BakedMosaicStored ==
    /\ lastOp.kind \in {"modified", "style", "addShape"}
    /\ \E p \in 1..Len(pages) :
          \E i \in 1..Len(pages[p].fabricData.objects) :
              /\ pages[p].fabricData.objects[i].isMosaic
              /\ pages[p].fabricData.objects[i].src.kind = "baked"

\* the selected objects of the surface
Selected == {i \in 1..Len(canvasObjs) : canvasObjs[i].oid \in lastOp.sel}

\* every selected object the key applies to carries the value of the edit:
\* opacity applies to all; size is the block size of a mosaic and a quarter
\* of the font size of a text; colour is the fill of a text and of a filled
\* shape
StyleApplied ==
    \A i \in Selected :
        LET o == canvasObjs[i] IN
        /\ lastOp.key = "opacity" => o.opacity = lastOp.value
        /\ lastOp.key = "size" /\ o.isMosaic => o.mosaicSize = lastOp.value
        /\ lastOp.key = "size" /\ o.type = "i-text" => o.fontSize = 4 * lastOp.value
        /\ lastOp.key = "color" /\ o.type \in {"i-text", "rect"}
              /\ o.fill # "transparent" => o.fill = lastOp.value

Effective(w, h, r) == IF r \in {90, 270} THEN <<h, w>> ELSE <<w, h>>

\* C5: the editing surface on load, fitZoom and the export overlay are all
\* sized (height, width) when the page's rotation is 90 or 270 and (width,
\* height) otherwise, so surface and overlay of a page have the same size
EffectiveDimensionsAgree ==
    /\ HasPage(pages, currentIndex) =>
          LET page == pages[currentIndex + 1] IN
          /\ canvasDims = Effective(page.width, page.height, page.rotation)
          /\ FitDims(page) = canvasDims
          /\ ExportDims(page) = canvasDims
    /\ ex.kind # "idle" =>
          \A i \in 1..Len(ex.out) :
              LET o == ex.out[i] IN
              /\ o.overlay = Effective(o.width, o.height, o.pageRotation)
              /\ o.surface = o.overlay
              /\ o.fit = o.overlay

\* a page turned by 270 degrees is on the surface and was exported, both with
\* width and height exchanged
QuarterTurnSwapsBoth ==
    /\ HasPage(pages, currentIndex)
    /\ pages[currentIndex + 1].rotation = 270
    /\ canvasDims = <<pages[currentIndex + 1].height, pages[currentIndex + 1].width>>
    /\ ex.kind = "done"
    /\ \E i \in 1..Len(ex.out) :
          /\ ex.out[i].pageRotation = 270
          /\ ex.out[i].width # ex.out[i].height
          /\ ex.out[i].overlay = <<ex.out[i].height, ex.out[i].width>>

\* C6: the rotation set on an output page is the sum of the copied page's
\* rotation and page.rotation, modulo 360
ExportRotationMod360 ==
    ex.kind # "idle" =>
        \A i \in 1..Len(ex.out) :
            ex.out[i].rotation = (ex.out[i].existing + ex.out[i].pageRotation) % 360

\* a page whose rotations add up to a full turn was exported with 360
FullTurnExported ==
    /\ ex.kind # "idle"
    /\ \E i \in 1..Len(ex.out) :
          /\ ex.out[i].existing = 270 /\ ex.out[i].pageRotation = 90
          /\ ex.out[i].rotation = 360

\* where the overlay of an exported page is drawn: at the corner the rotation
\* asks for, with the given width and height, turned by the page's rotation
DrawnAt(o, w, h) ==
    /\ o.draw.rotate = o.pageRotation
    /\ o.draw.x = (IF o.pageRotation \in {90, 180} THEN o.size[1] ELSE 0)
    /\ o.draw.y = (IF o.pageRotation \in {180, 270} THEN o.size[2] ELSE 0)
    /\ o.draw.width = w
    /\ o.draw.height = h

\* C7 (as the code has it): the overlay is drawn at (0,0), (pageOutW,0),
\* (pageOutW,pageOutH), (0,pageOutH) for rotation 0, 90, 180, 270, turned by
\* that angle, with the target page's reported width and height at 0 and 180
\* and with these two exchanged at 90 and 270
OverlayPlacement ==
    ex.kind # "idle" =>
        \A i \in 1..Len(ex.out) :
            LET o == ex.out[i] IN
            IF o.pageRotation \in {90, 270}
            THEN DrawnAt(o, o.size[2], o.size[1])
            ELSE DrawnAt(o, o.size[1], o.size[2])

\* C7 as stated: at rotation 90, 180 and 270 the overlay is drawn with
\* page.width and page.height
OverlayDrawnAtPageSize ==
    ex.kind # "idle" =>
        \A i \in 1..Len(ex.out) :
            LET o == ex.out[i] IN
            IF o.pageRotation = 0
            THEN DrawnAt(o, o.size[1], o.size[2])
            ELSE DrawnAt(o, o.width, o.height)

\* a blank page turned by 90 degrees was exported: its overlay is drawn from
\* (pageOutW, 0) as wide as the target page is high
QuarterTurnPlaced ==
    /\ ex.kind = "done"
    /\ \E i \in 1..Len(ex.out) :
          LET o == ex.out[i] IN
          /\ o.pageRotation = 90 /\ o.size = <<BlankW, BlankH>>
          /\ o.draw = [x |-> BlankW, y |-> 0, width |-> BlankH,
                       height |-> BlankW, rotate |-> 90]

\* the block size a bake divides by
UsedBlock == IF lastOp.b >= 1 THEN lastOp.b ELSE lastOp.el.b

\* n is max(1, floor(len / b)), len in thousandths
IsFloorOrOne(n, len, b) ==
    IF len < 1000 * b THEN n = 1
    ELSE n * 1000 * b <= len /\ (n + 1) * 1000 * b > len

\* C8: a bake with block size b over a w x h capture downsamples to
\* max(1, floor(w/b)) by max(1, floor(h/b)) cells and shows no more than
\* ceil(w/b) * ceil(h/b) flat-colour blocks; a block size of 0 (or none) is
\* replaced by one that is at least 1
MosaicBlockBound ==
    lastOp.kind = "pixelated" =>
        /\ lastOp.el.b >= 1
        /\ lastOp.b >= 1 => lastOp.el.b = lastOp.b
        /\ IsFloorOrOne(lastOp.el.sw, lastOp.w, UsedBlock)
        /\ IsFloorOrOne(lastOp.el.sh, lastOp.h, UsedBlock)
        /\ Cardinality(Blocks(lastOp.el))
              <= CeilDiv(lastOp.w, 1000 * UsedBlock) * CeilDiv(lastOp.h, 1000 * UsedBlock)

\* the 200 x 120 region at block size 10 was baked to 20 x 12 blocks
DefaultRegionPixelated ==
    /\ lastOp.kind = "pixelated"
    /\ lastOp.w = MosaicW * 1000 /\ lastOp.h = MosaicH * 1000 /\ lastOp.b = 10
    /\ lastOp.el.sw = 20 /\ lastOp.el.sh = 12
    /\ Cardinality(Blocks(lastOp.el)) = 240

\* C9: a bake that repeats the last bake of the same object, with nothing on
\* the surface moved, resized, restyled or changed in between, leaves the
\* object's element as the first bake left it
BakeIdempotent == bk.idem # "differs"

\* a repeated bake has just given a mosaic another element
RepeatedBakeDiffers ==
    /\ lastOp.kind = "baked"
    /\ bk.idem = "differs"

RotationFrame ==
    [][/\ (steps' < steps /\ lastOp'.kind = "rotate") =>
            /\ Len(pages') = Len(pages)
            /\ \A p \in 1..Len(pages) :
                  /\ pages'[p].rotation \in Rotations
                  /\ pages'[p].rotation =
                        (IF p = lastOp'.idx + 1 THEN (pages[p].rotation + 90) % 360
                         ELSE pages[p].rotation)
                  /\ [pages'[p] EXCEPT !.rotation = 0] = [pages[p] EXCEPT !.rotation = 0]
       /\ \A i \in 1..Len(loads) :
             loads' = RemoveAt(loads, i) =>
                 \A p \in 1..Len(pages') :
                     pages'[p].id = loads[i].page.id =>
                         pages'[p].fabricData = loads[i].page.fabricData
      ]_vars

\* after two rotations in a row the reloads are over and the stored scene of
\* the page, which had one mosaic, holds two
RotatedTwiceDoubled ==
    /\ lastOp.kind = "loaded" /\ loads = <<>>
    /\ pages[1].rotation = 180
    /\ Len(pages[1].fabricData.objects) = 2
    /\ pages[1].fabricData = LiveJSON

\* C12: no step of an export changes the Page Store, whether the export
\* succeeds or fails; the pages an export works on are those of the Page
\* Store at its start, not the live surface, and stay the same to its end
ExportLeavesStore ==
    [][ex' # ex =>
          /\ pages' = pages
          /\ ex'.kind = "running" /\ ex.kind # "running" => ex'.pages = pages
          /\ ex.kind = "running" => ex'.pages = ex.pages
          /\ ex.kind = "running" /\ ex.stage = "scene" =>
                ex'.cur = Reloaded(ex.pages[ExportAt].fabricData)
      ]_vars

\* an export has finished with the Page Store as it was at its start, while
\* the live surface shows a baked mosaic that the store does not hold
ExportedFromStore ==
    /\ ex.kind = "done" /\ pages = ex.pages
    /\ canvasObjs # <<>>
    /\ pages[currentIndex + 1].fabricData # LiveJSON
    /\ ex.out[1].scene = ExportScene(pages[1])

\* C13: an export in which a step has thrown has offered no document and has
\* cleared the loading flag; a document is offered only by an export that
\* has processed every page and saved the merged document
NoPartialDownload ==
    ex.kind # "idle" =>
        /\ ex.download => ex.kind = "done" /\ Len(ex.out) = Len(ex.pages)
        /\ ex.kind = "failed" => ~ex.download /\ ~isLoading
        /\ ex.kind = "done" => ex.download /\ ~isLoading
        /\ ex.kind = "running" => isLoading

\* an export has failed after its first page was built: nothing is offered
\* and the loading flag is cleared
FailedAfterFirstPage ==
    /\ ex.kind = "failed" /\ lastOp.kind = "exportFailed"
    /\ Len(ex.out) = 1 /\ Len(ex.pages) = 2
    /\ ~ex.download /\ ~isLoading

\* the pages the decodable files of a selection give, in file order
RECURSIVE DecodableIds(_, _, _)
DecodableIds(files, base, k) ==
    IF k > Len(files) THEN <<>>
    ELSE (IF files[k].ok THEN <<base + k>> ELSE <<>>)
         \o DecodableIds(files, base, k + 1)

\* C14: when an import of several files ends, the pages of every file that
\* can be decoded have been appended to the page list, also when another file
\* of the selection could not be decoded
ImportKeepsDecodable ==
    [][lastOp'.kind \in {"filesParsed", "filesFailed"} /\ lastOp' # lastOp =>
          Ids(pages') = Ids(pages) \o DecodableIds(lastOp'.files, lastOp'.base, 1)]_vars

\* an import has ended at a file that could not be decoded, with a decodable
\* file before it and one after it
ImportFailedInTheMiddle ==
    /\ lastOp.kind = "filesFailed" /\ lastOp.at = 2 /\ Len(lastOp.files) = 3
    /\ lastOp.files[1].ok /\ lastOp.files[3].ok
    /\ ~isLoading

\* C15: a call of saveCurrentState whose snapshot equals the stored scene
\* leaves the Page Store as it is, and of the two calls addShape makes on the
\* same surface (from object:added and its own) the first one alone can write:
\* the second finds the scene stored and writes nothing
RepeatedSaveWritesOnce ==
    [][LET id == ClosureId(pages, currentIndex)
           json == LiveJSON'
           first == SaveCurrentState(pages, currentIndex, id, isUpdating, json)
       IN  /\ \A q \in 1..Len(pages') :
                 ~SaveWrites(pages', q - 1, pages'[q].id, FALSE, pages'[q].fabricData)
           /\ lastOp' # lastOp /\ lastOp'.kind = "addShape" =>
                 /\ ~SaveWrites(first, currentIndex, id, isUpdating, json)
                 /\ pages' = first
                 /\ SaveWrites(pages, currentIndex, id, isUpdating, json)
                       = (pages' # pages)]_vars

\* a shape has been added to a page that already had one, and the scene with
\* both has been stored
SecondShapeStored ==
    /\ lastOp.kind = "addShape" /\ Len(canvasObjs) = 2 /\ ~isUpdating
    /\ Len(pages[currentIndex + 1].fabricData.objects) = 2
    /\ pages[currentIndex + 1].fabricData = LiveJSON

\* s without its element at position i
Without(s, i) == [j \in 1..(Len(s) - 1) |-> IF j < i THEN s[j] ELSE s[j + 1]]

\* t holds the elements of s in another order
Reordered(s, t) ==
    /\ Len(t) = Len(s)
    /\ \A v \in {s[i] : i \in 1..Len(s)} :
          Cardinality({i \in 1..Len(s) : s[i] = v})
            = Cardinality({i \in 1..Len(t) : t[i] = v})

StageRank(s) ==
    CASE s = "page" -> 1 [] s = "bg" -> 2 [] s = "scene" -> 3
      [] s = "bake" -> 4 [] s = "embed" -> 5

\* the completed stages of page k of the export, in the order of the log
StagesOf(k) ==
    LET idx == {i \in 1..Len(ex.log) : ex.log[i][1] = k}
    IN  [s \in {"page", "bg", "scene", "bake", "embed"} |->
            Cardinality({i \in idx : ex.log[i][2] = s})]

\* the mosaics the export has to bake on a page
MosaicsOf(page) ==
    LET doc == page.fabricData IN
    IF doc.isNull \/ doc.backgroundImage = NoBg THEN 0
    ELSE Cardinality({i \in 1..Len(doc.objects) : doc.objects[i].isMosaic})

\* C17: the export works on the pages one at a time in the order of the page
\* list: what has completed is, page after page, the page added, its
\* background loaded, its scene replayed, each of its mosaics baked and the
\* overlay embedded, and nothing of a page completes before the page before it
\* is embedded; the output holds the pages in list order, with every mosaic
\* baked, and all of them when the document is handed out
ExportInOrder ==
    ex.kind # "idle" =>
        /\ \A i \in 1..(Len(ex.log) - 1) :
              LET a == ex.log[i]
                  b == ex.log[i + 1]
              IN  \/ b[1] = a[1] /\ StageRank(a[2]) < StageRank(b[2])
                  \/ b[1] = a[1] /\ a[2] = "bake" /\ b[2] = "bake"
                  \/ b = <<a[1] + 1, "page">> /\ a[2] = "embed"
        /\ ex.log # <<>> => ex.log[1] = <<1, "page">>
        /\ Len(ex.out) <= Len(ex.pages)
        /\ \A k \in 1..Len(ex.out) :
              /\ ex.out[k].id = ex.pages[k].id
              /\ ex.out[k].scene = ExportScene(ex.pages[k])
              /\ StagesOf(k) = [page |-> 1, bg |-> 1,
                                scene |-> IF ex.pages[k].fabricData.isNull THEN 0 ELSE 1,
                                bake |-> MosaicsOf(ex.pages[k]), embed |-> 1]
        /\ ex.download => Len(ex.out) = Len(ex.pages)

\* a document of two pages has been exported, the first with a mosaic that
\* was baked before the second page was begun
ExportedWithBake ==
    /\ ex.kind = "done" /\ Len(ex.out) = 2
    /\ MosaicsOf(ex.pages[1]) = 1
    /\ ex.log[4] = <<1, "bake">> /\ ex.log[6] = <<2, "page">>
    /\ ex.out[1].scene[1].stroke = "transparent"

\* C18: while a page load is in flight no step writes a scene: every page
\* that is still in the Page Store after the step has the scene it had
NoWriteDuringLoad ==
    [][loads # <<>> =>
          \A p \in 1..Len(pages), q \in 1..Len(pages') :
              pages'[q].id = pages[p].id =>
                  pages'[q].fabricData = pages[p].fabricData]_vars

\* a load is in flight and the guard of saveCurrentState is open
LoadGuardLifted == loads # <<>> /\ ~isUpdating /\ lastOp.kind \in {"fromURL", "loaded"}

\* C19: every object on the surface is an object of the stored scene of the
\* active page, and once no load is in flight the surface shows the active
\* page: its thumbnail as background and the objects of its stored scene, no
\* more and no less
SurfaceShowsActivePage ==
    HasPage(pages, currentIndex) =>
        LET page == pages[currentIndex + 1]
            want == IF page.fabricData.isNull THEN <<>>
                    ELSE Reloaded(page.fabricData)
        IN  /\ \A i \in 1..Len(canvasObjs) : \E j \in 1..Len(want) :
                  Persisted(canvasObjs[i]) = Persisted(want[j])
            /\ loads = <<>> =>
                  /\ canvasBg # NoBg /\ canvasBg.thumb = page.id
                  /\ Len(canvasObjs) = Len(want)
                  /\ \A i \in 1..Len(want) :
                        Persisted(canvasObjs[i]) = Persisted(want[i])

\* the empty page is active, every load has finished, and the text of the
\* other page is on the surface
ForeignObjectStays ==
    /\ currentIndex = 1 /\ loads = <<>> /\ pages[2].fabricData.isNull
    /\ Len(canvasObjs) = 1 /\ canvasObjs[1].type = "i-text"
    /\ canvasBg.thumb = pages[2].id

\* C20: a step that changes the stored scene of a page changes it for the
\* page that is active when the step is taken, and for no other page
WritesOnlyActivePage ==
    [][\A q \in 1..Len(pages), p \in 1..Len(pages') :
          pages'[p].id = pages[q].id /\ pages'[p].fabricData # pages[q].fabricData
              => q = currentIndex + 1 /\ p = currentIndex' + 1]_vars

\* an image chosen on the first page has arrived with the second page
\* active, and the scene stored for the first page holds it
ImageStoredElsewhere ==
    /\ lastOp.kind = "imageLoaded" /\ currentIndex = 1 /\ ~isUpdating
    /\ ~pages[1].fabricData.isNull
    /\ \E i \in 1..Len(pages[1].fabricData.objects) :
          pages[1].fabricData.objects[i].type = "image"
    /\ pages[1].fabricData = LiveJSON

\* C21: an edit (a shape added, an object moved or resized, a style edit)
\* made while a page load is in flight changes neither the surface nor the
\* Page Store
EditsOnlyWhenReady ==
    [][loads # <<>> /\ lastOp' # lastOp
         /\ lastOp'.kind \in {"addShape", "modified", "style"} =>
             canvasObjs' = canvasObjs /\ pages' = pages]_vars

\* a shape has been added to a surface whose page is still being loaded; it
\* is on the surface and not in the Page Store
ShapeAddedWhileLoading ==
    /\ lastOp.kind = "addShape" /\ loads # <<>> /\ isUpdating
    /\ \E i \in 1..Len(canvasObjs) : canvasObjs[i].oid = lastOp.oid
    /\ pages[currentIndex + 1].fabricData # LiveJSON

\* C22: after an edit handled with no load in flight the stored scene of the
\* active page is the serialization of the surface as the edit left it
EditStoresLiveScene ==
    [][lastOp' # lastOp /\ loads' = <<>> /\ ~isUpdating'
         /\ lastOp'.kind \in {"addShape", "modified", "style", "imageLoaded",
                              "deleteObject", "moveLayer"} =>
             /\ HasPage(pages', currentIndex')
             /\ pages'[currentIndex' + 1].fabricData = LiveJSON']_vars

\* the mosaic, baked since it was added, has been sent behind the text, no
\* load is in flight, and the Page Store has the scene as it is on the
\* surface, the baked element included
EditedAndStored ==
    /\ lastOp.kind = "moveLayer" /\ lastOp.direction \in {"back", "backward"}
    /\ Len(canvasObjs) = 2 /\ canvasObjs[1].isMosaic
    /\ canvasObjs[1].element.kind = "baked"
    /\ loads = <<>> /\ ~isUpdating
    /\ pages[currentIndex + 1].fabricData = LiveJSON
    /\ pages[currentIndex + 1].fabricData.objects[1].src = canvasObjs[1].element

\* C23: a click on another page stores the scene of the page left, as it is
\* on the surface at the click, before the surface is cleared
SwitchStoresLiveScene ==
    [][lastOp' # lastOp /\ lastOp'.kind = "selectPage" /\ loads = <<>> =>
          /\ Len(pages') = Len(pages)
          /\ pages'[currentIndex + 1].fabricData = LiveJSON]_vars

\* the second page has been clicked after the bake of the first page's
\* mosaic had finished, and the stored scene of the first page has the mosaic
\* without its baked content
SwitchedWithoutBake ==
    /\ lastOp.kind = "selectPage" /\ currentIndex = 1 /\ Len(loads) = 1
    /\ bakes = <<>> /\ timers = {}
    /\ \E i \in 1..Len(pages[1].fabricData.objects) :
          /\ pages[1].fabricData.objects[i].isMosaic
          /\ pages[1].fabricData.objects[i].src.kind # "baked"

\* C24: when the image of a bake request loads after a later request for the
\* same mosaic was made and has already finished, the mosaic keeps the
\* content the later request gave it
LaterBakeWins ==
    [][\A n \in 1..Len(bakes) :
          (/\ lastOp' # lastOp /\ lastOp'.kind = "baked"
           /\ bakes' = RemoveAt(bakes, n)
           /\ lastOp'.oid = bakes[n].oid /\ ~bakes[n].ans
           /\ \A m \in 1..Len(bakes) : bakes[m].oid = bakes[n].oid => m <= n)
          => lastOp'.el = canvasObjs[IndexOf(canvasObjs, bakes[n].oid)].element]_vars

\* every bake has finished and a mosaic shows the pixels of a region it is
\* no longer at
MosaicShowsOldRegion ==
    /\ lastOp.kind = "baked" /\ bakes = <<>> /\ timers = {} /\ loads = <<>>
    /\ \E i \in 1..Len(canvasObjs) :
          /\ canvasObjs[i].oid = lastOp.oid
          /\ canvasObjs[i].element = lastOp.el
          /\ 2 * lastOp.el.cap.rect.left + lastOp.el.cap.rect.width
                # 2 * canvasObjs[i].left

\* C25: a timer of a bake that fires for an object no longer on the surface
\* asks for no image, and the image of a bake that loads for an object no
\* longer on the surface sets no element
StaleBakeDiscarded ==
    [][lastOp' # lastOp =>
          /\ lastOp'.kind = "timerOff" => lastOp'.req = <<>> /\ bakes' = bakes
          /\ lastOp'.kind # "bakedOff"]_vars

\* the timer of a mosaic of the first page has fired with the second page
\* active, and the bake waits for the image of a region of that surface
StaleBakeCaptured ==
    /\ lastOp.kind = "timerOff" /\ currentIndex = 1
    /\ lastOp.req # <<>> /\ bakes # <<>>
    /\ bakes[Len(bakes)] = lastOp.req[1]
    /\ ~OnCanvas(lastOp.oid)

\* C26: a bake asked for by the 100 ms timer of a reload captures a surface
\* that has the thumbnail of the active page as its background
ReloadBakeSeesBackground ==
    [][\A t \in timers :
          (/\ t.kind = "loaded" /\ timers' = timers \ {t}
           /\ Len(bakes') = Len(bakes) + 1)
          => /\ bakes'[Len(bakes')].cap.bg # NoBg
             /\ bakes'[Len(bakes')].cap.bg.thumb = ClosureId(pages, currentIndex)]_vars

\* both timers of a reloaded object have fired, the reload's after the
\* insertion's, and the reload's bake has captured the background of a page
\* other than the active one
ReloadBakeSawOtherPage ==
    /\ lastOp.kind = "timer" /\ Len(bakes) >= 2
    /\ bakes[Len(bakes)].oid = lastOp.oid
    /\ bakes[Len(bakes) - 1].oid = lastOp.oid
    /\ \A t \in timers : t.oid # lastOp.oid
    /\ bakes[Len(bakes)].cap.bg # NoBg
    /\ bakes[Len(bakes)].cap.bg.thumb # ClosureId(pages, currentIndex)

\* C27: the step that installs a baked element leaves the object's position,
\* width, height, scale, opacity and stroke as they were
BakeKeepsGeometry ==
    [][lastOp'.kind = "baked" /\ Len(bakes') < Len(bakes)
       => \A i \in 1..Len(canvasObjs) :
             canvasObjs[i].oid = lastOp'.oid
             => /\ canvasObjs'[i].left = canvasObjs[i].left
                /\ canvasObjs'[i].top = canvasObjs[i].top
                /\ canvasObjs'[i].width = canvasObjs[i].width
                /\ canvasObjs'[i].height = canvasObjs[i].height
                /\ canvasObjs'[i].scaleX = canvasObjs[i].scaleX
                /\ canvasObjs'[i].scaleY = canvasObjs[i].scaleY
                /\ canvasObjs'[i].opacity = canvasObjs[i].opacity
                /\ canvasObjs'[i].stroke = canvasObjs[i].stroke
                /\ canvasObjs'[i].strokeWidth = canvasObjs[i].strokeWidth]_vars

\* a mosaic added at 200 x 120 with its stroke has been baked and is now as
\* wide and as high as the rectangle that was captured, stroke included
BakedMosaicGrew ==
    /\ lastOp.kind = "baked"
    /\ \E i \in 1..Len(canvasObjs) :
          /\ canvasObjs[i].oid = lastOp.oid
          /\ canvasObjs[i].element = lastOp.el
          /\ canvasObjs[i].strokeWidth = MosaicStroke
          /\ canvasObjs[i].scaleX = 1000 /\ canvasObjs[i].scaleY = 1000
          /\ canvasObjs[i].width = MosaicW + MosaicStroke
          /\ canvasObjs[i].height = MosaicH + MosaicStroke

\* C28: what a bake of an object of the surface captures is the background
\* and the objects below that object in the stacking order, nothing else
CaptureOnlyBelow ==
    [][Len(bakes') = Len(bakes) + 1
       => LET b == bakes'[Len(bakes')] IN
          \A i \in 1..Len(canvasObjs') :
             canvasObjs'[i].oid = b.oid
             => b.cap.layers
                  = Drawn(SubSeq(canvasObjs', 1, i - 1), b.oid, b.cap.rect)]_vars

\* the timer of a mosaic at the bottom of the stack has fired and its bake has
\* captured the object that lies above it
CapturedObjectAbove ==
    /\ lastOp.kind = "timer" /\ bakes # <<>>
    /\ Len(canvasObjs) = 2
    /\ canvasObjs[1].oid = lastOp.oid /\ canvasObjs[1].isMosaic
    /\ bakes[Len(bakes)].oid = lastOp.oid
    /\ bakes[Len(bakes)].cap.layers = <<Visual(canvasObjs[2])>>

\* whether a drawn object leaves a mark: a mosaic as addShape makes it is a
\* transparent canvas (App.jsx:551-555) and, its outline taken away, shows
\* nothing
Shows(v) ==
    ~(v.type = "image" /\ v.element.kind = "blank" /\ v.stroke = "transparent")

\* C29: the bake of a mosaic on the export's static canvas gives the content
\* that updateMosaicContent gives for the same object on the same scene and
\* background: the same rectangle, the same small canvas, and a capture
\* without the mosaic itself
ExportBakeAsLive ==
    [][lastOp'.kind = "exportBake" /\ ex' # ex
       => LET o == ex.cur[ex.next]
              live == BakedElement(o, Capture(ex.cur, ex.bg, o.oid, BoundingRect(o)))
              el == ex'.cur[ex.next].element
          IN  /\ el.w = live.w /\ el.h = live.h
              /\ el.sw = live.sw /\ el.sh = live.sh /\ el.b = live.b
              /\ el.cap.rect = live.cap.rect
              /\ el.cap.bg = live.cap.bg
              /\ SelectSeq(el.cap.layers, Shows)
                   = SelectSeq(live.cap.layers, Shows)]_vars

\* the export has baked a mosaic from a capture in which the mosaic itself,
\* with the content of an earlier bake, is drawn
ExportCapturedMosaicItself ==
    /\ lastOp.kind = "exportBake"
    /\ \E i \in 1..Len(ex.cur) :
          /\ ex.cur[i].isMosaic /\ ex.cur[i].element.kind = "baked"
          /\ \E k \in 1..Len(ex.cur[i].element.cap.layers) :
                LET v == ex.cur[i].element.cap.layers[k] IN
                /\ v.type = "image" /\ v.element.kind = "baked"
                /\ v.left = ex.cur[i].left /\ v.top = ex.cur[i].top

\* C30: a bake that finds the object's bounding rectangle empty leaves no
\* request and leaves the object as it found it, and every bake, whatever its
\* path, leaves the object's visible flag as it found it
DegenerateBakeNoOp ==
    [][lastOp'.kind = "updateMosaicContent" /\ (timers' # timers \/ steps' # steps)
       => \A i \in 1..Len(canvasObjs') :
             canvasObjs'[i].oid = lastOp'.oid
             => /\ canvasObjs'[i].visible = lastOp'.before.visible
                /\ lastOp'.degenerate
                   => /\ Len(bakes') = Len(bakes)
                      /\ SetCoords(canvasObjs'[i]) = SetCoords(lastOp'.before)]_vars

\* a mosaic resized to scale 0 has been through a bake that returned early:
\* it is shown, it has the blank element addShape gave it and no bake waits
DegenerateBakeReturned ==
    /\ lastOp.kind = "updateMosaicContent" /\ lastOp.degenerate
    /\ bakes = <<>> /\ timers = {}
    /\ canvasObjs[1].scaleX = 0
    /\ canvasObjs[1].visible
    /\ canvasObjs[1].element.kind = "blank"

\* C31: an exported page whose overlay shows nothing, because its scene has
\* no object or only objects that leave no mark, has no overlay image
\* embedded
BlankOverlayNotEmbedded ==
    ex.kind # "idle" =>
        \A i \in 1..Len(ex.out) :
            (\A k \in 1..Len(ex.out[i].scene) : ~Shows(ex.out[i].scene[k]))
            => ~ex.out[i].embedded

\* a page without any object has been exported with an overlay image
\* embedded and drawn over the whole page
BlankOverlayEmbedded ==
    /\ ex.kind # "idle"
    /\ \E i \in 1..Len(ex.out) :
          /\ ex.out[i].scene = <<>>
          /\ ex.out[i].embedded
          /\ ex.out[i].overlay[1] > 0 /\ ex.out[i].overlay[2] > 0

\* C32: while there are pages the active index is -1 or the index of a page,
\* and a surface that has a background shows a page that is in the list
ActiveIndexInRange ==
    /\ Len(pages) > 0 => currentIndex \in (0 - 1)..(Len(pages) - 1)
    /\ canvasBg # NoBg => \E i \in 1..Len(pages) : pages[i].id = canvasBg.thumb

\* the last page of the list was deleted while it was the active one: the
\* active index points past the end and the surface still shows that page
ActiveIndexPastEnd ==
    /\ lastOp.kind = "deletePage"
    /\ Len(pages) > 0 /\ currentIndex = Len(pages)
    /\ canvasBg # NoBg
    /\ \A i \in 1..Len(pages) : pages[i].id # canvasBg.thumb

\* C33: a step that is not a page selection and that leaves the active page
\* in the list leaves the id of the active page as it was
ActivePageKept ==
    [][(/\ HasPage(pages, currentIndex)
        /\ lastOp'.kind # "selectPage"
        /\ \E i \in 1..Len(pages') : pages'[i].id = ClosureId(pages, currentIndex))
       => ClosureId(pages', currentIndex') = ClosureId(pages, currentIndex)]_vars

\* a page in front of the active page was deleted: the active page is still
\* in the list, and the page that followed it is the active one now
DeleteShiftsActivePage ==
    /\ lastOp.kind = "deletePage"
    /\ lastOp.idx < lastOp.cur /\ lastOp.cur < Len(lastOp.ids) - 1
    /\ currentIndex = lastOp.cur
    /\ Ids(pages)[currentIndex] = lastOp.ids[lastOp.cur + 1]
    /\ Ids(pages)[currentIndex + 1] = lastOp.ids[lastOp.cur + 2]

\* C34: whenever the write guard is set, the loads in flight finish and the
\* guard is cleared: the guard does not stay set for ever
LoadCompletes == isUpdating ~> (~isUpdating /\ loads = <<>>)

\* the first page was turned, its scene with the mosaic has been loaded
\* again, no load is in flight and the guard is cleared
TurnedPageLoaded ==
    /\ lastOp.kind = "loaded" /\ lastOp.page = 101
    /\ currentIndex = 0 /\ pages[1].rotation = 90
    /\ loads = <<>> /\ ~isUpdating
    /\ canvasObjs # <<>>

============================================================================
